---- MODULE Spec2Model ----
(***************************************************************************)
(* A model of src/automation.js: the fetch -> generate -> render -> deliver *)
(* pipeline of runAutomation, and its renderers and summary taken as       *)
(* functions of a snapshot list.                                           *)
(*                                                                         *)
(* JavaScript numbers are IEEE-754 binary64 values.  They are modelled     *)
(* bit-exactly (53-bit significand, round to nearest, ties to even); only  *)
(* the exponent range is left unbounded, so overflow to Infinity and       *)
(* subnormal results are not modelled.  All inputs used below are far from *)
(* both.                                                                   *)
(***************************************************************************)
EXTENDS Integers, Sequences, FiniteSets, TLC

(***************************************************************************)
(* Natural numbers of any size: little-endian sequences of limbs in        *)
(* 0..Base-1 with no most-significant zero limb (<<>> is 0).  They carry   *)
(* the 53-bit significands and their 106-bit products.                     *)
(***************************************************************************)
Base == 2^15

RECURSIVE BNorm(_)
BNorm(a) ==
    IF a = <<>> THEN <<>>
    ELSE IF a[Len(a)] = 0 THEN BNorm(SubSeq(a, 1, Len(a) - 1))
    ELSE a

RECURSIVE BFromInt(_)
BFromInt(n) == IF n = 0 THEN <<>> ELSE <<n % Base>> \o BFromInt(n \div Base)

RECURSIVE BToInt(_)
BToInt(a) == IF a = <<>> THEN 0 ELSE a[1] + Base * BToInt(Tail(a))

RECURSIVE BAddC(_, _, _)
BAddC(a, b, c) ==
    IF a = <<>> /\ b = <<>> THEN (IF c = 0 THEN <<>> ELSE <<c>>)
    ELSE LET x == (IF a = <<>> THEN 0 ELSE a[1]) + (IF b = <<>> THEN 0 ELSE b[1]) + c
         IN  <<x % Base>> \o BAddC(IF a = <<>> THEN <<>> ELSE Tail(a),
                                   IF b = <<>> THEN <<>> ELSE Tail(b),
                                   x \div Base)

BAdd(a, b) == BAddC(a, b, 0)

RECURSIVE BSubC(_, _, _)
BSubC(a, b, c) ==
    IF a = <<>> THEN <<>>
    ELSE LET x == a[1] - (IF b = <<>> THEN 0 ELSE b[1]) - c
         IN  <<x % Base>> \o BSubC(Tail(a),
                                   IF b = <<>> THEN <<>> ELSE Tail(b),
                                   IF x < 0 THEN 1 ELSE 0)

\* a - b for a >= b
BSub(a, b) == BNorm(BSubC(a, b, 0))

RECURSIVE BCmpAt(_, _, _)
BCmpAt(a, b, i) ==
    IF i = 0 THEN 0
    ELSE IF a[i] < b[i] THEN -1
    ELSE IF a[i] > b[i] THEN 1
    ELSE BCmpAt(a, b, i - 1)

\* -1, 0 or 1 as a < b, a = b or a > b
BCmp(a, b) ==
    IF Len(a) < Len(b) THEN -1
    ELSE IF Len(a) > Len(b) THEN 1
    ELSE BCmpAt(a, b, Len(a))

RECURSIVE BMulSmallC(_, _, _)
BMulSmallC(a, k, c) ==
    IF a = <<>> THEN (IF c = 0 THEN <<>> ELSE <<c>>)
    ELSE LET x == a[1] * k + c
         IN  <<x % Base>> \o BMulSmallC(Tail(a), k, x \div Base)

\* a * k for 0 <= k < Base
BMulSmall(a, k) == IF k = 0 THEN <<>> ELSE BMulSmallC(a, k, 0)

RECURSIVE BMul(_, _)
BMul(a, b) ==
    IF a = <<>> \/ b = <<>> THEN <<>>
    ELSE LET rest == BMul(a, Tail(b))
         IN  BAdd(BMulSmall(a, b[1]), IF rest = <<>> THEN <<>> ELSE <<0>> \o rest)

RECURSIVE SmallBitLen(_)
SmallBitLen(n) == IF n = 0 THEN 0 ELSE 1 + SmallBitLen(n \div 2)

LimbBits == SmallBitLen(Base) - 1

\* the number of bits of a: 0 for 0, else floor(log2 a) + 1
BBitLen(a) == IF a = <<>> THEN 0 ELSE LimbBits * (Len(a) - 1) + SmallBitLen(a[Len(a)])

\* a * 2^n
BShl(a, n) ==
    IF a = <<>> THEN <<>>
    ELSE [i \in 1..(n \div LimbBits) |-> 0] \o BMulSmall(a, 2^(n % LimbBits))

\* floor(b / p) for a power of two p <= Base
ShrLimbs(b, p) ==
    BNorm([i \in 1..Len(b) |->
              (b[i] \div p) + (IF i < Len(b) THEN (b[i + 1] % p) * (Base \div p) ELSE 0)])

\* floor(a / 2^n)
BShr(a, n) ==
    ShrLimbs(IF n \div LimbBits >= Len(a) THEN <<>> ELSE SubSeq(a, n \div LimbBits + 1, Len(a)),
             2^(n % LimbBits))

\* bit n of a (bit 0 is the least significant)
BBit(a, n) ==
    IF n \div LimbBits + 1 > Len(a) THEN 0
    ELSE (a[n \div LimbBits + 1] \div 2^(n % LimbBits)) % 2

\* whether a mod 2^n = 0
BLowZero(a, n) ==
    /\ \A i \in 1..(n \div LimbBits) : i > Len(a) \/ a[i] = 0
    /\ \/ n \div LimbBits + 1 > Len(a)
       \/ a[n \div LimbBits + 1] % 2^(n % LimbBits) = 0

RECURSIVE DivStep(_, _, _, _)
\* n <= 15 more quotient bits of r / d (r < d), appended to the bits q:
\* <<the bits as an integer, the remainder>>
DivStep(r, d, n, q) ==
    IF n = 0 THEN <<q, r>>
    ELSE IF BCmp(BAdd(r, r), d) >= 0
    THEN DivStep(BSub(BAdd(r, r), d), d, n - 1, 2 * q + 1)
    ELSE DivStep(BAdd(r, r), d, n - 1, 2 * q)

RECURSIVE DivChunks(_, _, _, _)
\* s is the last DivStep and acc the quotient limbs before it; after chunks
\* more limbs: <<the quotient, whether a remainder is left>>
DivChunks(s, d, chunks, acc) ==
    IF chunks = 0 THEN <<BNorm(<<s[1]>> \o acc), s[2] # <<>> >>
    ELSE DivChunks(DivStep(s[2], d, 15, 0), d, chunks - 1, <<s[1]>> \o acc)

\* <<floor(a * 2^55 / d), whether a remainder is left>> for a < 2 * d
DivBits(a, d) ==
    DivChunks(DivStep(IF BCmp(a, d) >= 0 THEN BSub(a, d) ELSE a, d, 10,
                      IF BCmp(a, d) >= 0 THEN 1 ELSE 0),
              d, 3, <<>>)

(***************************************************************************)
(* JavaScript values that reach the arithmetic: undefined, NaN, +-Infinity *)
(* and the finite doubles.  A finite nonzero double is neg, m, e with      *)
(* 2^52 <= m < 2^53 and value (-1)^neg * m * 2^e; zero has m = <<>>.       *)
(***************************************************************************)
Undefined == [k |-> "undefined", neg |-> FALSE, m |-> <<>>, e |-> 0]
NaN == [k |-> "NaN", neg |-> FALSE, m |-> <<>>, e |-> 0]
Infinity(neg) == [k |-> "Infinity", neg |-> neg, m |-> <<>>, e |-> 0]
Zero(neg) == [k |-> "num", neg |-> neg, m |-> <<>>, e |-> 0]
Double(neg, m, e) == [k |-> "num", neg |-> neg, m |-> m, e |-> e]

\* ToNumber: undefined converts to NaN
ToNumber(v) == IF v.k = "undefined" THEN NaN ELSE v

IsNaN(v) == v.k \in {"undefined", "NaN"}
IsFinite(v) == v.k = "num"
IsZero(v) == v.k = "num" /\ v.m = <<>>

\* a significand that rounding carried up to 2^53 is renormalised
Carry(neg, q, E) ==
    IF BBitLen(q) > 53 THEN Double(neg, BShr(q, 1), E + 1) ELSE Double(neg, q, E)

\* q * 2^E with q of 53 bits, half the first bit dropped and rest whether
\* any lower one is set: up when above the middle, or in it and q is odd
RoundShifted(neg, q, E, half, rest) ==
    Carry(neg, IF half /\ (rest \/ q[1] % 2 = 1) THEN BAdd(q, <<1>>) ELSE q, E)

RoundBits(neg, N, E, sticky, L) ==
    IF L <= 53 THEN Double(neg, BShl(N, 53 - L), E - (53 - L))
    ELSE RoundShifted(neg, BShr(N, L - 53), E + (L - 53), BBit(N, L - 54) = 1,
                      sticky \/ ~BLowZero(N, L - 54))

\* N * 2^E (N > 0 exact but for lower bits summarised by sticky) rounded to
\* the nearest double, ties to even
RoundD(neg, N, E, sticky) == RoundBits(neg, N, E, sticky, BBitLen(N))

\* the double of an integer |n| < 2^31
FromInt(n) ==
    IF n = 0 THEN Zero(FALSE)
    ELSE RoundD(n < 0, BFromInt(IF n < 0 THEN -n ELSE n), 0, FALSE)

FNeg(a) == IF a.k \in {"num", "Infinity"} THEN [a EXCEPT !.neg = ~a.neg] ELSE NaN

\* Math.abs
MathAbs(a) == IF a.k \in {"num", "Infinity"} THEN [a EXCEPT !.neg = FALSE] ELSE NaN

MulNumbers(a, b) ==
    IF a.k = "NaN" \/ b.k = "NaN" THEN NaN
    ELSE IF a.k = "Infinity" \/ b.k = "Infinity"
    THEN (IF IsZero(a) \/ IsZero(b) THEN NaN ELSE Infinity(a.neg # b.neg))
    ELSE IF IsZero(a) \/ IsZero(b) THEN Zero(a.neg # b.neg)
    ELSE RoundD(a.neg # b.neg, BMul(a.m, b.m), a.e + b.e, FALSE)

\* x * y
FMul(x, y) == MulNumbers(ToNumber(x), ToNumber(y))

RoundQuotient(neg, qr, E) == RoundD(neg, qr[1], E, qr[2])

DivNumbers(a, b) ==
    IF a.k = "NaN" \/ b.k = "NaN" THEN NaN
    ELSE IF a.k = "Infinity"
    THEN (IF b.k = "Infinity" THEN NaN ELSE Infinity(a.neg # b.neg))
    ELSE IF b.k = "Infinity" THEN Zero(a.neg # b.neg)
    ELSE IF IsZero(b) THEN (IF IsZero(a) THEN NaN ELSE Infinity(a.neg # b.neg))
    ELSE IF IsZero(a) THEN Zero(a.neg # b.neg)
    ELSE RoundQuotient(a.neg # b.neg, DivBits(a.m, b.m), a.e - b.e - 55)

\* x / y
FDiv(x, y) == DivNumbers(ToNumber(x), ToNumber(y))

\* a + b for opposite signs, A being a.m aligned to b.e and c how A compares
\* to b.m
AddOpposite(a, b, A, c) ==
    IF c = 0 THEN Zero(FALSE)
    ELSE RoundD(IF c > 0 THEN a.neg ELSE b.neg,
                BSub(IF c > 0 THEN A ELSE b.m, IF c > 0 THEN b.m ELSE A), b.e, FALSE)

AddAligned(a, b, A) ==
    IF a.neg = b.neg THEN RoundD(a.neg, BAdd(A, b.m), b.e, FALSE)
    ELSE AddOpposite(a, b, A, BCmp(A, b.m))

\* the sum of two finite nonzero doubles, a.e >= b.e; b is below half a unit
\* in the last place of a when the exponents are more than 64 apart
AddFinite(a, b) ==
    IF a.e - b.e > 64 THEN a ELSE AddAligned(a, b, BShl(a.m, a.e - b.e))

AddNumbers(a, b) ==
    IF a.k = "NaN" \/ b.k = "NaN" THEN NaN
    ELSE IF a.k = "Infinity"
    THEN (IF b.k = "Infinity" /\ a.neg # b.neg THEN NaN ELSE a)
    ELSE IF b.k = "Infinity" THEN b
    ELSE IF IsZero(a) THEN (IF IsZero(b) THEN Zero(a.neg /\ b.neg) ELSE b)
    ELSE IF IsZero(b) THEN a
    ELSE AddFinite(IF a.e >= b.e THEN a ELSE b, IF a.e >= b.e THEN b ELSE a)

\* x + y and x - y
FAdd(x, y) == AddNumbers(ToNumber(x), ToNumber(y))
FSub(x, y) == AddNumbers(ToNumber(x), FNeg(y))

\* 0 for zero, 1 for the other finite numbers, 2 for Infinity
MagClass(v) == IF v.k = "Infinity" THEN 2 ELSE IF v.m = <<>> THEN 0 ELSE 1

\* -1, 0, 1 as |a| < |b|, |a| = |b|, |a| > |b|
MagCmp(a, b) ==
    IF MagClass(a) # MagClass(b) THEN (IF MagClass(a) < MagClass(b) THEN -1 ELSE 1)
    ELSE IF MagClass(a) # 1 THEN 0
    ELSE IF a.e # b.e THEN (IF a.e < b.e THEN -1 ELSE 1)
    ELSE BCmp(a.m, b.m)

\* -1, 0, 1 as a < b, a = b, a > b for numbers other than NaN
NumCmp(a, b) ==
    IF IsZero(a) /\ IsZero(b) THEN 0
    ELSE IF a.neg # b.neg THEN (IF a.neg THEN -1 ELSE 1)
    ELSE IF a.neg THEN -MagCmp(a, b) ELSE MagCmp(a, b)

\* a < b, a > b, a >= b, a == b: false whenever an operand is NaN
FLt(x, y) == ~IsNaN(x) /\ ~IsNaN(y) /\ NumCmp(x, y) < 0
FGt(x, y) == ~IsNaN(x) /\ ~IsNaN(y) /\ NumCmp(x, y) > 0
FGe(x, y) == ~IsNaN(x) /\ ~IsNaN(y) /\ NumCmp(x, y) >= 0

RECURSIVE MaxFrom(_, _)
MaxFrom(acc, s) ==
    IF s = <<>> THEN acc
    ELSE IF IsNaN(s[1]) \/ IsNaN(acc) THEN NaN
    ELSE MaxFrom(IF FGt(s[1], acc) THEN s[1] ELSE acc, Tail(s))

\* Math.max(...s): -Infinity for no arguments, NaN if any argument is NaN
MathMax(s) == MaxFrom(Infinity(TRUE), s)

\* the double nearest to n / 10, as the literal n/10 written in decimal denotes
Tenths(n) == FDiv(FromInt(n), FromInt(10))

\* the integer nearest to N * 2^e, the larger one on a tie
NearestInt(N, e) ==
    IF e >= 0 THEN BToInt(BShl(N, e)) ELSE BToInt(BShr(N, -e)) + BBit(N, -e - 1)

FixedText(sign, n, digits) ==
    IF digits = 0 THEN sign \o ToString(n)
    ELSE sign \o ToString(n \div 10) \o "." \o ToString(n % 10)

\* Number.prototype.toFixed(digits) for digits 0 or 1 and |v| < 10^21: the
\* decimal of the integer n nearest to |v| * 10^digits (the larger n on a
\* tie), "-" in front when v < 0.  undefined has no toFixed: a caller that
\* reaches it throws (see Throws).
ToFixed(v, digits) ==
    IF v.k = "NaN" THEN "NaN"
    ELSE IF v.k = "Infinity" THEN (IF v.neg THEN "-Infinity" ELSE "Infinity")
    ELSE FixedText(IF v.neg /\ v.m # <<>> THEN "-" ELSE "",
                   NearestInt(BMulSmall(v.m, 10^digits), v.e), digits)

\* reading a property of undefined (here .toFixed) throws a TypeError
Throws(v) == v.k = "undefined"

\* `${p > 0 ? '+' : ''}${p.toFixed(1)}%`
SignedPercent(v) == (IF FGt(v, Zero(FALSE)) THEN "+" ELSE "") \o ToFixed(v, 1) \o "%"

(***************************************************************************)
(* Strings that the code transforms are sequences of one-character         *)
(* strings, each a UTF-16 code unit; Str joins them into the string they   *)
(* spell.  A string of this module can hold the code units up to U+00FF    *)
(* other than the backquote, and those whose low byte is 0x80 or more,     *)
(* which leaves out the surrogates and so every letter beyond U+FFFF.  The *)
(* tables are those of Unicode 17.0, cut down to these characters.         *)
(***************************************************************************)
\* the characters that toLowerCase changes, each with its result
UpperCase == <<"A", "B", "C", "D", "E", "F", "G", "H", "I", "J", "K", "L",
    "M", "N", "O", "P", "Q", "R", "S", "T", "U", "V", "W", "X", "Y", "Z",
    "À", "Á", "Â", "Ã", "Ä", "Å", "Æ", "Ç", "È", "É", "Ê", "Ë", "Ì", "Í",
    "Î", "Ï", "Ð", "Ñ", "Ò", "Ó", "Ô", "Õ", "Ö", "Ø", "Ù", "Ú", "Û", "Ü",
    "Ý", "Þ", "Ƃ", "Ƅ", "Ƈ", "Ƌ", "Ǝ", "Ƒ", "Ƙ", "Ơ", "Ƣ", "Ƥ", "Ʀ", "Ƨ",
    "Ʃ", "Ƭ", "Ʈ", "Ư", "Ʊ", "Ʋ", "Ƴ", "Ƶ", "Ʒ", "Ƹ", "Ƽ", "Ǆ", "ǅ", "Ǉ",
    "ǈ", "Ǌ", "ǋ", "Ǎ", "Ǐ", "Ǒ", "Ǔ", "Ǖ", "Ǘ", "Ǚ", "Ǜ", "Ǟ", "Ǡ", "Ǣ",
    "Ǥ", "Ǧ", "Ǩ", "Ǫ", "Ǭ", "Ǯ", "Ǳ", "ǲ", "Ǵ", "Ƕ", "Ƿ", "Ǹ", "Ǻ", "Ǽ",
    "Ǿ", "Ά", "Έ", "Ή", "Ί", "Ό", "Ύ", "Ώ", "Α", "Β", "Γ", "Δ", "Ε", "Ζ",
    "Η", "Θ", "Ι", "Κ", "Λ", "Μ", "Ν", "Ξ", "Ο", "Π", "Ρ", "Σ", "Τ", "Υ",
    "Φ", "Χ", "Ψ", "Ω", "Ϊ", "Ϋ", "Ϗ", "Ϙ", "Ϛ", "Ϝ", "Ϟ", "Ϡ", "Ϣ", "Ϥ",
    "Ϧ", "Ϩ", "Ϫ", "Ϭ", "Ϯ", "ϴ", "Ϸ", "Ϲ", "Ϻ", "Ҁ", "Ҋ", "Ҍ", "Ҏ", "Ґ",
    "Ғ", "Ҕ", "Җ", "Ҙ", "Қ", "Ҝ", "Ҟ", "Ҡ", "Ң", "Ҥ", "Ҧ", "Ҩ", "Ҫ", "Ҭ",
    "Ү", "Ұ", "Ҳ", "Ҵ", "Ҷ", "Ҹ", "Һ", "Ҽ", "Ҿ", "Ӏ", "Ӂ", "Ӄ", "Ӆ", "Ӈ",
    "Ӊ", "Ӌ", "Ӎ", "Ӑ", "Ӓ", "Ӕ", "Ӗ", "Ә", "Ӛ", "Ӝ", "Ӟ", "Ӡ", "Ӣ", "Ӥ",
    "Ӧ", "Ө", "Ӫ", "Ӭ", "Ӯ", "Ӱ", "Ӳ", "Ӵ", "Ӷ", "Ӹ", "Ӻ", "Ӽ", "Ӿ", "Ꮀ",
    "Ꮁ", "Ꮂ", "Ꮃ", "Ꮄ", "Ꮅ", "Ꮆ", "Ꮇ", "Ꮈ", "Ꮉ", "Ꮊ", "Ꮋ", "Ꮌ", "Ꮍ", "Ꮎ",
    "Ꮏ", "Ꮐ", "Ꮑ", "Ꮒ", "Ꮓ", "Ꮔ", "Ꮕ", "Ꮖ", "Ꮗ", "Ꮘ", "Ꮙ", "Ꮚ", "Ꮛ", "Ꮜ",
    "Ꮝ", "Ꮞ", "Ꮟ", "Ꮠ", "Ꮡ", "Ꮢ", "Ꮣ", "Ꮤ", "Ꮥ", "Ꮦ", "Ꮧ", "Ꮨ", "Ꮩ", "Ꮪ",
    "Ꮫ", "Ꮬ", "Ꮭ", "Ꮮ", "Ꮯ", "Ꮰ", "Ꮱ", "Ꮲ", "Ꮳ", "Ꮴ", "Ꮵ", "Ꮶ", "Ꮷ", "Ꮸ",
    "Ꮹ", "Ꮺ", "Ꮻ", "Ꮼ", "Ꮽ", "Ꮾ", "Ꮿ", "Ᏸ", "Ᏹ", "Ᏺ", "Ᏻ", "Ᏼ", "Ᏽ", "Ᲊ",
    "Ა", "Ბ", "Გ", "Დ", "Ე", "Ვ", "Ზ", "Თ", "Ი", "Კ", "Ლ", "Მ", "Ნ", "Ო",
    "Პ", "Ჟ", "Რ", "Ს", "Ტ", "Უ", "Ფ", "Ქ", "Ღ", "Ყ", "Შ", "Ჩ", "Ც", "Ძ",
    "Წ", "Ჭ", "Ხ", "Ჯ", "Ჰ", "Ჱ", "Ჲ", "Ჳ", "Ჴ", "Ჵ", "Ჶ", "Ჷ", "Ჸ", "Ჹ",
    "Ჺ", "Ჽ", "Ჾ", "Ჿ", "Ẁ", "Ẃ", "Ẅ", "Ẇ", "Ẉ", "Ẋ", "Ẍ", "Ẏ", "Ẑ", "Ẓ",
    "Ẕ", "ẞ", "Ạ", "Ả", "Ấ", "Ầ", "Ẩ", "Ẫ", "Ậ", "Ắ", "Ằ", "Ẳ", "Ẵ", "Ặ",
    "Ẹ", "Ẻ", "Ẽ", "Ế", "Ề", "Ể", "Ễ", "Ệ", "Ỉ", "Ị", "Ọ", "Ỏ", "Ố", "Ồ",
    "Ổ", "Ỗ", "Ộ", "Ớ", "Ờ", "Ở", "Ỡ", "Ợ", "Ụ", "Ủ", "Ứ", "Ừ", "Ử", "Ữ",
    "Ự", "Ỳ", "Ỵ", "Ỷ", "Ỹ", "Ỻ", "Ỽ", "Ỿ", "ᾈ", "ᾉ", "ᾊ", "ᾋ", "ᾌ", "ᾍ",
    "ᾎ", "ᾏ", "ᾘ", "ᾙ", "ᾚ", "ᾛ", "ᾜ", "ᾝ", "ᾞ", "ᾟ", "ᾨ", "ᾩ", "ᾪ", "ᾫ",
    "ᾬ", "ᾭ", "ᾮ", "ᾯ", "Ᾰ", "Ᾱ", "ᾼ", "ῌ", "Ῐ", "Ῑ", "Ῠ", "Ῡ", "Ῥ", "ῼ",
    "Ↄ", "Ⓐ", "Ⓑ", "Ⓒ", "Ⓓ", "Ⓔ", "Ⓕ", "Ⓖ", "Ⓗ", "Ⓘ", "Ⓙ", "Ⓚ", "Ⓛ", "Ⓜ",
    "Ⓝ", "Ⓞ", "Ⓟ", "Ⓠ", "Ⓡ", "Ⓢ", "Ⓣ", "Ⓤ", "Ⓥ", "Ⓦ", "Ⓧ", "Ⓨ", "Ⓩ", "Ⲁ",
    "Ⲃ", "Ⲅ", "Ⲇ", "Ⲉ", "Ⲋ", "Ⲍ", "Ⲏ", "Ⲑ", "Ⲓ", "Ⲕ", "Ⲗ", "Ⲙ", "Ⲛ", "Ⲝ",
    "Ⲟ", "Ⲡ", "Ⲣ", "Ⲥ", "Ⲧ", "Ⲩ", "Ⲫ", "Ⲭ", "Ⲯ", "Ⲱ", "Ⲳ", "Ⲵ", "Ⲷ", "Ⲹ",
    "Ⲻ", "Ⲽ", "Ⲿ", "Ⳁ", "Ⳃ", "Ⳅ", "Ⳇ", "Ⳉ", "Ⳋ", "Ⳍ", "Ⳏ", "Ⳑ", "Ⳓ", "Ⳕ",
    "Ⳗ", "Ⳙ", "Ⳛ", "Ⳝ", "Ⳟ", "Ⳡ", "Ⳣ", "Ⳬ", "Ⳮ", "Ⳳ", "Ꚁ", "Ꚃ", "Ꚅ", "Ꚇ",
    "Ꚉ", "Ꚋ", "Ꚍ", "Ꚏ", "Ꚑ", "Ꚓ", "Ꚕ", "Ꚗ", "Ꚙ", "Ꚛ", "Ꞁ", "Ꞃ", "Ꞅ", "Ꞇ",
    "Ꞌ", "Ꞑ", "Ꞓ", "Ꞗ", "Ꞙ", "Ꞛ", "Ꞝ", "Ꞟ", "Ꞡ", "Ꞣ", "Ꞥ", "Ꞧ", "Ꞩ", "Ʞ",
    "Ʇ", "Ʝ", "Ꞵ", "Ꞷ", "Ꞹ", "Ꞻ", "Ꞽ", "Ꞿ", "Ꟁ", "Ꟃ", "Ꞔ", "Ʂ", "Ᶎ", "Ꟈ",
    "Ꟊ", "Ꟍ", "꟎", "Ꟑ", "꟒", "꟔", "Ꟗ", "Ꟙ", "Ꟛ", "Ƛ", "Ꟶ">>

LowerCase == <<"a", "b", "c", "d", "e", "f", "g", "h", "i", "j", "k", "l",
    "m", "n", "o", "p", "q", "r", "s", "t", "u", "v", "w", "x", "y", "z",
    "à", "á", "â", "ã", "ä", "å", "æ", "ç", "è", "é", "ê", "ë", "ì", "í",
    "î", "ï", "ð", "ñ", "ò", "ó", "ô", "õ", "ö", "ø", "ù", "ú", "û", "ü",
    "ý", "þ", "ƃ", "ƅ", "ƈ", "ƌ", "ǝ", "ƒ", "ƙ", "ơ", "ƣ", "ƥ", "ʀ", "ƨ",
    "ʃ", "ƭ", "ʈ", "ư", "ʊ", "ʋ", "ƴ", "ƶ", "ʒ", "ƹ", "ƽ", "ǆ", "ǆ", "ǉ",
    "ǉ", "ǌ", "ǌ", "ǎ", "ǐ", "ǒ", "ǔ", "ǖ", "ǘ", "ǚ", "ǜ", "ǟ", "ǡ", "ǣ",
    "ǥ", "ǧ", "ǩ", "ǫ", "ǭ", "ǯ", "ǳ", "ǳ", "ǵ", "ƕ", "ƿ", "ǹ", "ǻ", "ǽ",
    "ǿ", "ά", "έ", "ή", "ί", "ό", "ύ", "ώ", "α", "β", "γ", "δ", "ε", "ζ",
    "η", "θ", "ι", "κ", "λ", "μ", "ν", "ξ", "ο", "π", "ρ", "σ", "τ", "υ",
    "φ", "χ", "ψ", "ω", "ϊ", "ϋ", "ϗ", "ϙ", "ϛ", "ϝ", "ϟ", "ϡ", "ϣ", "ϥ",
    "ϧ", "ϩ", "ϫ", "ϭ", "ϯ", "θ", "ϸ", "ϲ", "ϻ", "ҁ", "ҋ", "ҍ", "ҏ", "ґ",
    "ғ", "ҕ", "җ", "ҙ", "қ", "ҝ", "ҟ", "ҡ", "ң", "ҥ", "ҧ", "ҩ", "ҫ", "ҭ",
    "ү", "ұ", "ҳ", "ҵ", "ҷ", "ҹ", "һ", "ҽ", "ҿ", "ӏ", "ӂ", "ӄ", "ӆ", "ӈ",
    "ӊ", "ӌ", "ӎ", "ӑ", "ӓ", "ӕ", "ӗ", "ә", "ӛ", "ӝ", "ӟ", "ӡ", "ӣ", "ӥ",
    "ӧ", "ө", "ӫ", "ӭ", "ӯ", "ӱ", "ӳ", "ӵ", "ӷ", "ӹ", "ӻ", "ӽ", "ӿ", "ꮀ",
    "ꮁ", "ꮂ", "ꮃ", "ꮄ", "ꮅ", "ꮆ", "ꮇ", "ꮈ", "ꮉ", "ꮊ", "ꮋ", "ꮌ", "ꮍ", "ꮎ",
    "ꮏ", "ꮐ", "ꮑ", "ꮒ", "ꮓ", "ꮔ", "ꮕ", "ꮖ", "ꮗ", "ꮘ", "ꮙ", "ꮚ", "ꮛ", "ꮜ",
    "ꮝ", "ꮞ", "ꮟ", "ꮠ", "ꮡ", "ꮢ", "ꮣ", "ꮤ", "ꮥ", "ꮦ", "ꮧ", "ꮨ", "ꮩ", "ꮪ",
    "ꮫ", "ꮬ", "ꮭ", "ꮮ", "ꮯ", "ꮰ", "ꮱ", "ꮲ", "ꮳ", "ꮴ", "ꮵ", "ꮶ", "ꮷ", "ꮸ",
    "ꮹ", "ꮺ", "ꮻ", "ꮼ", "ꮽ", "ꮾ", "ꮿ", "ᏸ", "ᏹ", "ᏺ", "ᏻ", "ᏼ", "ᏽ", "ᲊ",
    "ა", "ბ", "გ", "დ", "ე", "ვ", "ზ", "თ", "ი", "კ", "ლ", "მ", "ნ", "ო",
    "პ", "ჟ", "რ", "ს", "ტ", "უ", "ფ", "ქ", "ღ", "ყ", "შ", "ჩ", "ც", "ძ",
    "წ", "ჭ", "ხ", "ჯ", "ჰ", "ჱ", "ჲ", "ჳ", "ჴ", "ჵ", "ჶ", "ჷ", "ჸ", "ჹ",
    "ჺ", "ჽ", "ჾ", "ჿ", "ẁ", "ẃ", "ẅ", "ẇ", "ẉ", "ẋ", "ẍ", "ẏ", "ẑ", "ẓ",
    "ẕ", "ß", "ạ", "ả", "ấ", "ầ", "ẩ", "ẫ", "ậ", "ắ", "ằ", "ẳ", "ẵ", "ặ",
    "ẹ", "ẻ", "ẽ", "ế", "ề", "ể", "ễ", "ệ", "ỉ", "ị", "ọ", "ỏ", "ố", "ồ",
    "ổ", "ỗ", "ộ", "ớ", "ờ", "ở", "ỡ", "ợ", "ụ", "ủ", "ứ", "ừ", "ử", "ữ",
    "ự", "ỳ", "ỵ", "ỷ", "ỹ", "ỻ", "ỽ", "ỿ", "ᾀ", "ᾁ", "ᾂ", "ᾃ", "ᾄ", "ᾅ",
    "ᾆ", "ᾇ", "ᾐ", "ᾑ", "ᾒ", "ᾓ", "ᾔ", "ᾕ", "ᾖ", "ᾗ", "ᾠ", "ᾡ", "ᾢ", "ᾣ",
    "ᾤ", "ᾥ", "ᾦ", "ᾧ", "ᾰ", "ᾱ", "ᾳ", "ῃ", "ῐ", "ῑ", "ῠ", "ῡ", "ῥ", "ῳ",
    "ↄ", "ⓐ", "ⓑ", "ⓒ", "ⓓ", "ⓔ", "ⓕ", "ⓖ", "ⓗ", "ⓘ", "ⓙ", "ⓚ", "ⓛ", "ⓜ",
    "ⓝ", "ⓞ", "ⓟ", "ⓠ", "ⓡ", "ⓢ", "ⓣ", "ⓤ", "ⓥ", "ⓦ", "ⓧ", "ⓨ", "ⓩ", "ⲁ",
    "ⲃ", "ⲅ", "ⲇ", "ⲉ", "ⲋ", "ⲍ", "ⲏ", "ⲑ", "ⲓ", "ⲕ", "ⲗ", "ⲙ", "ⲛ", "ⲝ",
    "ⲟ", "ⲡ", "ⲣ", "ⲥ", "ⲧ", "ⲩ", "ⲫ", "ⲭ", "ⲯ", "ⲱ", "ⲳ", "ⲵ", "ⲷ", "ⲹ",
    "ⲻ", "ⲽ", "ⲿ", "ⳁ", "ⳃ", "ⳅ", "ⳇ", "ⳉ", "ⳋ", "ⳍ", "ⳏ", "ⳑ", "ⳓ", "ⳕ",
    "ⳗ", "ⳙ", "ⳛ", "ⳝ", "ⳟ", "ⳡ", "ⳣ", "ⳬ", "ⳮ", "ⳳ", "ꚁ", "ꚃ", "ꚅ", "ꚇ",
    "ꚉ", "ꚋ", "ꚍ", "ꚏ", "ꚑ", "ꚓ", "ꚕ", "ꚗ", "ꚙ", "ꚛ", "ꞁ", "ꞃ", "ꞅ", "ꞇ",
    "ꞌ", "ꞑ", "ꞓ", "ꞗ", "ꞙ", "ꞛ", "ꞝ", "ꞟ", "ꞡ", "ꞣ", "ꞥ", "ꞧ", "ꞩ", "ʞ",
    "ʇ", "ʝ", "ꞵ", "ꞷ", "ꞹ", "ꞻ", "ꞽ", "ꞿ", "ꟁ", "ꟃ", "ꞔ", "ʂ", "ᶎ", "ꟈ",
    "ꟊ", "ꟍ", "꟏", "ꟑ", "ꟓ", "ꟕ", "ꟗ", "ꟙ", "ꟛ", "ƛ", "ꟶ">>

\* the characters whose lower case is a character that cannot be written
\* here (Ɓ gives U+0253), and four that have a lower case only from Unicode
\* 16.0 on: ToLowerCase has no value for them
NoLowerCase == {"Ɓ", "Ɔ", "Ɖ", "Ɗ", "Ə", "Ɛ", "Ɠ", "Ɣ", "Ɩ", "Ɨ", "Ɯ", "Ɲ",
    "Ɵ", "Ͻ", "Ͼ", "Ͽ", "Ⴀ", "Ⴁ", "Ⴂ", "Ⴃ", "Ⴄ", "Ⴅ", "Ⴆ", "Ⴇ", "Ⴈ", "Ⴉ",
    "Ⴊ", "Ⴋ", "Ⴌ", "Ⴍ", "Ⴎ", "Ⴏ", "Ⴐ", "Ⴑ", "Ⴒ", "Ⴓ", "Ⴔ", "Ⴕ", "Ⴖ", "Ⴗ",
    "Ⴘ", "Ⴙ", "Ⴚ", "Ⴛ", "Ⴜ", "Ⴝ", "Ⴞ", "Ⴟ", "Ⴠ", "Ⴡ", "Ⴢ", "Ⴣ", "Ⴤ", "Ⴥ",
    "Ⴧ", "Ⴭ", "Ꭰ", "Ꭱ", "Ꭲ", "Ꭳ", "Ꭴ", "Ꭵ", "Ꭶ", "Ꭷ", "Ꭸ", "Ꭹ", "Ꭺ", "Ꭻ",
    "Ꭼ", "Ꭽ", "Ꭾ", "Ꭿ", "Ὰ", "Ά", "Ὲ", "Έ", "Ὴ", "Ή", "Ὶ", "Ί", "Ὺ", "Ύ",
    "Ὸ", "Ό", "Ὼ", "Ώ", "Ɥ", "Ɦ", "Ɜ", "Ɡ", "Ɬ", "Ɪ", "Ꭓ", "Ɤ"}

\* the cased letters that are not case-ignorable
Cased == {"A", "B", "C", "D", "E", "F", "G", "H", "I", "J", "K", "L", "M",
    "N", "O", "P", "Q", "R", "S", "T", "U", "V", "W", "X", "Y", "Z", "a",
    "b", "c", "d", "e", "f", "g", "h", "i", "j", "k", "l", "m", "n", "o",
    "p", "q", "r", "s", "t", "u", "v", "w", "x", "y", "z", "ª", "µ", "º",
    "À", "Á", "Â", "Ã", "Ä", "Å", "Æ", "Ç", "È", "É", "Ê", "Ë", "Ì", "Í",
    "Î", "Ï", "Ð", "Ñ", "Ò", "Ó", "Ô", "Õ", "Ö", "Ø", "Ù", "Ú", "Û", "Ü",
    "Ý", "Þ", "ß", "à", "á", "â", "ã", "ä", "å", "æ", "ç", "è", "é", "ê",
    "ë", "ì", "í", "î", "ï", "ð", "ñ", "ò", "ó", "ô", "õ", "ö", "ø", "ù",
    "ú", "û", "ü", "ý", "þ", "ÿ", "ƀ", "Ɓ", "Ƃ", "ƃ", "Ƅ", "ƅ", "Ɔ", "Ƈ",
    "ƈ", "Ɖ", "Ɗ", "Ƌ", "ƌ", "ƍ", "Ǝ", "Ə", "Ɛ", "Ƒ", "ƒ", "Ɠ", "Ɣ", "ƕ",
    "Ɩ", "Ɨ", "Ƙ", "ƙ", "ƚ", "ƛ", "Ɯ", "Ɲ", "ƞ", "Ɵ", "Ơ", "ơ", "Ƣ", "ƣ",
    "Ƥ", "ƥ", "Ʀ", "Ƨ", "ƨ", "Ʃ", "ƪ", "ƫ", "Ƭ", "ƭ", "Ʈ", "Ư", "ư", "Ʊ",
    "Ʋ", "Ƴ", "ƴ", "Ƶ", "ƶ", "Ʒ", "Ƹ", "ƹ", "ƺ", "Ƽ", "ƽ", "ƾ", "ƿ", "Ǆ",
    "ǅ", "ǆ", "Ǉ", "ǈ", "ǉ", "Ǌ", "ǋ", "ǌ", "Ǎ", "ǎ", "Ǐ", "ǐ", "Ǒ", "ǒ",
    "Ǔ", "ǔ", "Ǖ", "ǖ", "Ǘ", "ǘ", "Ǚ", "ǚ", "Ǜ", "ǜ", "ǝ", "Ǟ", "ǟ", "Ǡ",
    "ǡ", "Ǣ", "ǣ", "Ǥ", "ǥ", "Ǧ", "ǧ", "Ǩ", "ǩ", "Ǫ", "ǫ", "Ǭ", "ǭ", "Ǯ",
    "ǯ", "ǰ", "Ǳ", "ǲ", "ǳ", "Ǵ", "ǵ", "Ƕ", "Ƿ", "Ǹ", "ǹ", "Ǻ", "ǻ", "Ǽ",
    "ǽ", "Ǿ", "ǿ", "ʀ", "ʁ", "ʂ", "ʃ", "ʄ", "ʅ", "ʆ", "ʇ", "ʈ", "ʉ", "ʊ",
    "ʋ", "ʌ", "ʍ", "ʎ", "ʏ", "ʐ", "ʑ", "ʒ", "ʓ", "ʖ", "ʗ", "ʘ", "ʙ", "ʚ",
    "ʛ", "ʜ", "ʝ", "ʞ", "ʟ", "ʠ", "ʡ", "ʢ", "ʣ", "ʤ", "ʥ", "ʦ", "ʧ", "ʨ",
    "ʩ", "ʪ", "ʫ", "ʬ", "ʭ", "ʮ", "ʯ", "Ά", "Έ", "Ή", "Ί", "Ό", "Ύ", "Ώ",
    "ΐ", "Α", "Β", "Γ", "Δ", "Ε", "Ζ", "Η", "Θ", "Ι", "Κ", "Λ", "Μ", "Ν",
    "Ξ", "Ο", "Π", "Ρ", "Σ", "Τ", "Υ", "Φ", "Χ", "Ψ", "Ω", "Ϊ", "Ϋ", "ά",
    "έ", "ή", "ί", "ΰ", "α", "β", "γ", "δ", "ε", "ζ", "η", "θ", "ι", "κ",
    "λ", "μ", "ν", "ξ", "ο", "π", "ρ", "ς", "σ", "τ", "υ", "φ", "χ", "ψ",
    "ω", "ϊ", "ϋ", "ό", "ύ", "ώ", "Ϗ", "ϐ", "ϑ", "ϒ", "ϓ", "ϔ", "ϕ", "ϖ",
    "ϗ", "Ϙ", "ϙ", "Ϛ", "ϛ", "Ϝ", "ϝ", "Ϟ", "ϟ", "Ϡ", "ϡ", "Ϣ", "ϣ", "Ϥ",
    "ϥ", "Ϧ", "ϧ", "Ϩ", "ϩ", "Ϫ", "ϫ", "Ϭ", "ϭ", "Ϯ", "ϯ", "ϰ", "ϱ", "ϲ",
    "ϳ", "ϴ", "ϵ", "Ϸ", "ϸ", "Ϲ", "Ϻ", "ϻ", "ϼ", "Ͻ", "Ͼ", "Ͽ", "Ҁ", "ҁ",
    "Ҋ", "ҋ", "Ҍ", "ҍ", "Ҏ", "ҏ", "Ґ", "ґ", "Ғ", "ғ", "Ҕ", "ҕ", "Җ", "җ",
    "Ҙ", "ҙ", "Қ", "қ", "Ҝ", "ҝ", "Ҟ", "ҟ", "Ҡ", "ҡ", "Ң", "ң", "Ҥ", "ҥ",
    "Ҧ", "ҧ", "Ҩ", "ҩ", "Ҫ", "ҫ", "Ҭ", "ҭ", "Ү", "ү", "Ұ", "ұ", "Ҳ", "ҳ",
    "Ҵ", "ҵ", "Ҷ", "ҷ", "Ҹ", "ҹ", "Һ", "һ", "Ҽ", "ҽ", "Ҿ", "ҿ", "Ӏ", "Ӂ",
    "ӂ", "Ӄ", "ӄ", "Ӆ", "ӆ", "Ӈ", "ӈ", "Ӊ", "ӊ", "Ӌ", "ӌ", "Ӎ", "ӎ", "ӏ",
    "Ӑ", "ӑ", "Ӓ", "ӓ", "Ӕ", "ӕ", "Ӗ", "ӗ", "Ә", "ә", "Ӛ", "ӛ", "Ӝ", "ӝ",
    "Ӟ", "ӟ", "Ӡ", "ӡ", "Ӣ", "ӣ", "Ӥ", "ӥ", "Ӧ", "ӧ", "Ө", "ө", "Ӫ", "ӫ",
    "Ӭ", "ӭ", "Ӯ", "ӯ", "Ӱ", "ӱ", "Ӳ", "ӳ", "Ӵ", "ӵ", "Ӷ", "ӷ", "Ӹ", "ӹ",
    "Ӻ", "ӻ", "Ӽ", "ӽ", "Ӿ", "ӿ", "ր", "ց", "ւ", "փ", "ք", "օ", "ֆ", "և",
    "ֈ", "Ⴀ", "Ⴁ", "Ⴂ", "Ⴃ", "Ⴄ", "Ⴅ", "Ⴆ", "Ⴇ", "Ⴈ", "Ⴉ", "Ⴊ", "Ⴋ", "Ⴌ",
    "Ⴍ", "Ⴎ", "Ⴏ", "Ⴐ", "Ⴑ", "Ⴒ", "Ⴓ", "Ⴔ", "Ⴕ", "Ⴖ", "Ⴗ", "Ⴘ", "Ⴙ", "Ⴚ",
    "Ⴛ", "Ⴜ", "Ⴝ", "Ⴞ", "Ⴟ", "Ⴠ", "Ⴡ", "Ⴢ", "Ⴣ", "Ⴤ", "Ⴥ", "Ⴧ", "Ⴭ", "ა",
    "ბ", "გ", "დ", "ე", "ვ", "ზ", "თ", "ი", "კ", "ლ", "მ", "ნ", "ო", "პ",
    "ჟ", "რ", "ს", "ტ", "უ", "ფ", "ქ", "ღ", "ყ", "შ", "ჩ", "ც", "ძ", "წ",
    "ჭ", "ხ", "ჯ", "ჰ", "ჱ", "ჲ", "ჳ", "ჴ", "ჵ", "ჶ", "ჷ", "ჸ", "ჹ", "ჺ",
    "ჽ", "ჾ", "ჿ", "Ꭰ", "Ꭱ", "Ꭲ", "Ꭳ", "Ꭴ", "Ꭵ", "Ꭶ", "Ꭷ", "Ꭸ", "Ꭹ", "Ꭺ",
    "Ꭻ", "Ꭼ", "Ꭽ", "Ꭾ", "Ꭿ", "Ꮀ", "Ꮁ", "Ꮂ", "Ꮃ", "Ꮄ", "Ꮅ", "Ꮆ", "Ꮇ", "Ꮈ",
    "Ꮉ", "Ꮊ", "Ꮋ", "Ꮌ", "Ꮍ", "Ꮎ", "Ꮏ", "Ꮐ", "Ꮑ", "Ꮒ", "Ꮓ", "Ꮔ", "Ꮕ", "Ꮖ",
    "Ꮗ", "Ꮘ", "Ꮙ", "Ꮚ", "Ꮛ", "Ꮜ", "Ꮝ", "Ꮞ", "Ꮟ", "Ꮠ", "Ꮡ", "Ꮢ", "Ꮣ", "Ꮤ",
    "Ꮥ", "Ꮦ", "Ꮧ", "Ꮨ", "Ꮩ", "Ꮪ", "Ꮫ", "Ꮬ", "Ꮭ", "Ꮮ", "Ꮯ", "Ꮰ", "Ꮱ", "Ꮲ",
    "Ꮳ", "Ꮴ", "Ꮵ", "Ꮶ", "Ꮷ", "Ꮸ", "Ꮹ", "Ꮺ", "Ꮻ", "Ꮼ", "Ꮽ", "Ꮾ", "Ꮿ", "Ᏸ",
    "Ᏹ", "Ᏺ", "Ᏻ", "Ᏼ", "Ᏽ", "ᏸ", "ᏹ", "ᏺ", "ᏻ", "ᏼ", "ᏽ", "ᲀ", "ᲁ", "ᲂ",
    "ᲃ", "ᲄ", "ᲅ", "ᲆ", "ᲇ", "ᲈ", "Ᲊ", "ᲊ", "Ა", "Ბ", "Გ", "Დ", "Ე", "Ვ",
    "Ზ", "Თ", "Ი", "Კ", "Ლ", "Მ", "Ნ", "Ო", "Პ", "Ჟ", "Რ", "Ს", "Ტ", "Უ",
    "Ფ", "Ქ", "Ღ", "Ყ", "Შ", "Ჩ", "Ც", "Ძ", "Წ", "Ჭ", "Ხ", "Ჯ", "Ჰ", "Ჱ",
    "Ჲ", "Ჳ", "Ჴ", "Ჵ", "Ჶ", "Ჷ", "Ჸ", "Ჹ", "Ჺ", "Ჽ", "Ჾ", "Ჿ", "ᶀ", "ᶁ",
    "ᶂ", "ᶃ", "ᶄ", "ᶅ", "ᶆ", "ᶇ", "ᶈ", "ᶉ", "ᶊ", "ᶋ", "ᶌ", "ᶍ", "ᶎ", "ᶏ",
    "ᶐ", "ᶑ", "ᶒ", "ᶓ", "ᶔ", "ᶕ", "ᶖ", "ᶗ", "ᶘ", "ᶙ", "ᶚ", "Ẁ", "ẁ", "Ẃ",
    "ẃ", "Ẅ", "ẅ", "Ẇ", "ẇ", "Ẉ", "ẉ", "Ẋ", "ẋ", "Ẍ", "ẍ", "Ẏ", "ẏ", "Ẑ",
    "ẑ", "Ẓ", "ẓ", "Ẕ", "ẕ", "ẖ", "ẗ", "ẘ", "ẙ", "ẚ", "ẛ", "ẜ", "ẝ", "ẞ",
    "ẟ", "Ạ", "ạ", "Ả", "ả", "Ấ", "ấ", "Ầ", "ầ", "Ẩ", "ẩ", "Ẫ", "ẫ", "Ậ",
    "ậ", "Ắ", "ắ", "Ằ", "ằ", "Ẳ", "ẳ", "Ẵ", "ẵ", "Ặ", "ặ", "Ẹ", "ẹ", "Ẻ",
    "ẻ", "Ẽ", "ẽ", "Ế", "ế", "Ề", "ề", "Ể", "ể", "Ễ", "ễ", "Ệ", "ệ", "Ỉ",
    "ỉ", "Ị", "ị", "Ọ", "ọ", "Ỏ", "ỏ", "Ố", "ố", "Ồ", "ồ", "Ổ", "ổ", "Ỗ",
    "ỗ", "Ộ", "ộ", "Ớ", "ớ", "Ờ", "ờ", "Ở", "ở", "Ỡ", "ỡ", "Ợ", "ợ", "Ụ",
    "ụ", "Ủ", "ủ", "Ứ", "ứ", "Ừ", "ừ", "Ử", "ử", "Ữ", "ữ", "Ự", "ự", "Ỳ",
    "ỳ", "Ỵ", "ỵ", "Ỷ", "ỷ", "Ỹ", "ỹ", "Ỻ", "ỻ", "Ỽ", "ỽ", "Ỿ", "ỿ", "ᾀ",
    "ᾁ", "ᾂ", "ᾃ", "ᾄ", "ᾅ", "ᾆ", "ᾇ", "ᾈ", "ᾉ", "ᾊ", "ᾋ", "ᾌ", "ᾍ", "ᾎ",
    "ᾏ", "ᾐ", "ᾑ", "ᾒ", "ᾓ", "ᾔ", "ᾕ", "ᾖ", "ᾗ", "ᾘ", "ᾙ", "ᾚ", "ᾛ", "ᾜ",
    "ᾝ", "ᾞ", "ᾟ", "ᾠ", "ᾡ", "ᾢ", "ᾣ", "ᾤ", "ᾥ", "ᾦ", "ᾧ", "ᾨ", "ᾩ", "ᾪ",
    "ᾫ", "ᾬ", "ᾭ", "ᾮ", "ᾯ", "ᾰ", "ᾱ", "ᾲ", "ᾳ", "ᾴ", "ᾶ", "ᾷ", "Ᾰ", "Ᾱ",
    "Ὰ", "Ά", "ᾼ", "ι", "ῂ", "ῃ", "ῄ", "ῆ", "ῇ", "Ὲ", "Έ", "Ὴ", "Ή", "ῌ",
    "ῐ", "ῑ", "ῒ", "ΐ", "ῖ", "ῗ", "Ῐ", "Ῑ", "Ὶ", "Ί", "ῠ", "ῡ", "ῢ", "ΰ",
    "ῤ", "ῥ", "ῦ", "ῧ", "Ῠ", "Ῡ", "Ὺ", "Ύ", "Ῥ", "ῲ", "ῳ", "ῴ", "ῶ", "ῷ",
    "Ὸ", "Ό", "Ὼ", "Ώ", "ῼ", "Ↄ", "ↄ", "Ⓐ", "Ⓑ", "Ⓒ", "Ⓓ", "Ⓔ", "Ⓕ", "Ⓖ",
    "Ⓗ", "Ⓘ", "Ⓙ", "Ⓚ", "Ⓛ", "Ⓜ", "Ⓝ", "Ⓞ", "Ⓟ", "Ⓠ", "Ⓡ", "Ⓢ", "Ⓣ", "Ⓤ",
    "Ⓥ", "Ⓦ", "Ⓧ", "Ⓨ", "Ⓩ", "ⓐ", "ⓑ", "ⓒ", "ⓓ", "ⓔ", "ⓕ", "ⓖ", "ⓗ", "ⓘ",
    "ⓙ", "ⓚ", "ⓛ", "ⓜ", "ⓝ", "ⓞ", "ⓟ", "ⓠ", "ⓡ", "ⓢ", "ⓣ", "ⓤ", "ⓥ", "ⓦ",
    "ⓧ", "ⓨ", "ⓩ", "Ⲁ", "ⲁ", "Ⲃ", "ⲃ", "Ⲅ", "ⲅ", "Ⲇ", "ⲇ", "Ⲉ", "ⲉ", "Ⲋ",
    "ⲋ", "Ⲍ", "ⲍ", "Ⲏ", "ⲏ", "Ⲑ", "ⲑ", "Ⲓ", "ⲓ", "Ⲕ", "ⲕ", "Ⲗ", "ⲗ", "Ⲙ",
    "ⲙ", "Ⲛ", "ⲛ", "Ⲝ", "ⲝ", "Ⲟ", "ⲟ", "Ⲡ", "ⲡ", "Ⲣ", "ⲣ", "Ⲥ", "ⲥ", "Ⲧ",
    "ⲧ", "Ⲩ", "ⲩ", "Ⲫ", "ⲫ", "Ⲭ", "ⲭ", "Ⲯ", "ⲯ", "Ⲱ", "ⲱ", "Ⲳ", "ⲳ", "Ⲵ",
    "ⲵ", "Ⲷ", "ⲷ", "Ⲹ", "ⲹ", "Ⲻ", "ⲻ", "Ⲽ", "ⲽ", "Ⲿ", "ⲿ", "Ⳁ", "ⳁ", "Ⳃ",
    "ⳃ", "Ⳅ", "ⳅ", "Ⳇ", "ⳇ", "Ⳉ", "ⳉ", "Ⳋ", "ⳋ", "Ⳍ", "ⳍ", "Ⳏ", "ⳏ", "Ⳑ",
    "ⳑ", "Ⳓ", "ⳓ", "Ⳕ", "ⳕ", "Ⳗ", "ⳗ", "Ⳙ", "ⳙ", "Ⳛ", "ⳛ", "Ⳝ", "ⳝ", "Ⳟ",
    "ⳟ", "Ⳡ", "ⳡ", "Ⳣ", "ⳣ", "ⳤ", "Ⳬ", "ⳬ", "Ⳮ", "ⳮ", "Ⳳ", "ⳳ", "Ꚁ", "ꚁ",
    "Ꚃ", "ꚃ", "Ꚅ", "ꚅ", "Ꚇ", "ꚇ", "Ꚉ", "ꚉ", "Ꚋ", "ꚋ", "Ꚍ", "ꚍ", "Ꚏ", "ꚏ",
    "Ꚑ", "ꚑ", "Ꚓ", "ꚓ", "Ꚕ", "ꚕ", "Ꚗ", "ꚗ", "Ꚙ", "ꚙ", "Ꚛ", "ꚛ", "Ꞁ", "ꞁ",
    "Ꞃ", "ꞃ", "Ꞅ", "ꞅ", "Ꞇ", "ꞇ", "Ꞌ", "ꞌ", "Ɥ", "ꞎ", "Ꞑ", "ꞑ", "Ꞓ", "ꞓ",
    "ꞔ", "ꞕ", "Ꞗ", "ꞗ", "Ꞙ", "ꞙ", "Ꞛ", "ꞛ", "Ꞝ", "ꞝ", "Ꞟ", "ꞟ", "Ꞡ", "ꞡ",
    "Ꞣ", "ꞣ", "Ꞥ", "ꞥ", "Ꞧ", "ꞧ", "Ꞩ", "ꞩ", "Ɦ", "Ɜ", "Ɡ", "Ɬ", "Ɪ", "ꞯ",
    "Ʞ", "Ʇ", "Ʝ", "Ꭓ", "Ꞵ", "ꞵ", "Ꞷ", "ꞷ", "Ꞹ", "ꞹ", "Ꞻ", "ꞻ", "Ꞽ", "ꞽ",
    "Ꞿ", "ꞿ", "Ꟁ", "ꟁ", "Ꟃ", "ꟃ", "Ꞔ", "Ʂ", "Ᶎ", "Ꟈ", "ꟈ", "Ꟊ", "ꟊ", "Ɤ",
    "Ꟍ", "ꟍ", "꟎", "꟏", "Ꟑ", "ꟑ", "꟒", "ꟓ", "꟔", "ꟕ", "Ꟗ", "ꟗ", "Ꟙ", "ꟙ",
    "Ꟛ", "ꟛ", "Ƛ", "Ꟶ", "ꟶ", "ꟺ", "ꮀ", "ꮁ", "ꮂ", "ꮃ", "ꮄ", "ꮅ", "ꮆ", "ꮇ",
    "ꮈ", "ꮉ", "ꮊ", "ꮋ", "ꮌ", "ꮍ", "ꮎ", "ꮏ", "ꮐ", "ꮑ", "ꮒ", "ꮓ", "ꮔ", "ꮕ",
    "ꮖ", "ꮗ", "ꮘ", "ꮙ", "ꮚ", "ꮛ", "ꮜ", "ꮝ", "ꮞ", "ꮟ", "ꮠ", "ꮡ", "ꮢ", "ꮣ",
    "ꮤ", "ꮥ", "ꮦ", "ꮧ", "ꮨ", "ꮩ", "ꮪ", "ꮫ", "ꮬ", "ꮭ", "ꮮ", "ꮯ", "ꮰ", "ꮱ",
    "ꮲ", "ꮳ", "ꮴ", "ꮵ", "ꮶ", "ꮷ", "ꮸ", "ꮹ", "ꮺ", "ꮻ", "ꮼ", "ꮽ", "ꮾ", "ꮿ"}

\* the case-ignorable characters
CaseIgnorable == {"'", ".", ":", "^", "¨", "­", "¯", "´", "·", "¸", "ʰ", "ʱ",
    "ʲ", "ʳ", "ʴ", "ʵ", "ʶ", "ʷ", "ʸ", "ʹ", "ʺ", "ʻ", "ʼ", "ʽ", "ʾ", "ʿ",
    "ˀ", "ˁ", "˂", "˃", "˄", "˅", "ˆ", "ˇ", "ˈ", "ˉ", "ˊ", "ˋ", "ˌ", "ˍ",
    "ˎ", "ˏ", "ː", "ˑ", "˒", "˓", "˔", "˕", "˖", "˗", "˘", "˙", "˚", "˛",
    "˜", "˝", "˞", "˟", "ˠ", "ˡ", "ˢ", "ˣ", "ˤ", "˥", "˦", "˧", "˨", "˩",
    "˪", "˫", "ˬ", "˭", "ˮ", "˯", "˰", "˱", "˲", "˳", "˴", "˵", "˶", "˷",
    "˸", "˹", "˺", "˻", "˼", "˽", "˾", "˿", "΄", "΅", "·", "҃", "҄", "҅",
    "҆", "҇", "҈", "҉", "֑", "֒", "֓", "֔", "֕", "֖", "֗", "֘", "֙", "֚",
    "֛", "֜", "֝", "֞", "֟", "֠", "֡", "֢", "֣", "֤", "֥", "֦", "֧", "֨",
    "֩", "֪", "֫", "֬", "֭", "֮", "֯", "ְ", "ֱ", "ֲ", "ֳ", "ִ", "ֵ", "ֶ",
    "ַ", "ָ", "ֹ", "ֺ", "ֻ", "ּ", "ֽ", "ֿ", "ׁ", "ׂ", "ׄ", "ׅ", "ׇ", "״",
    "ۖ", "ۗ", "ۘ", "ۙ", "ۚ", "ۛ", "ۜ", "۝", "۟", "۠", "ۡ", "ۢ", "ۣ", "ۤ",
    "ۥ", "ۦ", "ۧ", "ۨ", "۪", "۫", "۬", "ۭ", "ަ", "ާ", "ި", "ީ", "ު", "ޫ",
    "ެ", "ޭ", "ޮ", "ޯ", "ް", "߫", "߬", "߭", "߮", "߯", "߰", "߱", "߲", "߳",
    "ߴ", "ߵ", "ߺ", "߽", "࢈", "࢐", "࢑", "ࢗ", "࢘", "࢙", "࢚", "࢛", "࢜", "࢝",
    "࢞", "࢟", "ࣉ", "࣊", "࣋", "࣌", "࣍", "࣎", "࣏", "࣐", "࣑", "࣒", "࣓", "ࣔ",
    "ࣕ", "ࣖ", "ࣗ", "ࣘ", "ࣙ", "ࣚ", "ࣛ", "ࣜ", "ࣝ", "ࣞ", "ࣟ", "࣠", "࣡", "࣢",
    "ࣣ", "ࣤ", "ࣥ", "ࣦ", "ࣧ", "ࣨ", "ࣩ", "࣪", "࣫", "࣬", "࣭", "࣮", "࣯", "ࣰ",
    "ࣱ", "ࣲ", "ࣳ", "ࣴ", "ࣵ", "ࣶ", "ࣷ", "ࣸ", "ࣹ", "ࣺ", "ࣻ", "ࣼ", "ࣽ", "ࣾ",
    "ࣿ", "ঁ", "়", "ু", "ূ", "ৃ", "ৄ", "্", "ৢ", "ৣ", "৾", "ઁ", "ં", "઼",
    "ુ", "ૂ", "ૃ", "ૄ", "ૅ", "ે", "ૈ", "્", "ૢ", "ૣ", "ૺ", "ૻ", "ૼ", "૽",
    "૾", "૿", "ஂ", "ீ", "்", "ಁ", "಼", "ಿ", "ೆ", "ೌ", "್", "ೢ", "ೣ", "ඁ",
    "්", "ි", "ී", "ු", "ූ", "ັ", "ິ", "ີ", "ຶ", "ື", "ຸ", "ູ", "຺", "ົ",
    "ຼ", "ໆ", "່", "້", "໊", "໋", "໌", "ໍ", "໎", "ྀ", "ཱྀ", "ྂ", "ྃ", "྄",
    "྆", "྇", "ྍ", "ྎ", "ྏ", "ྐ", "ྑ", "ྒ", "ྒྷ", "ྔ", "ྕ", "ྖ", "ྗ", "ྙ",
    "ྚ", "ྛ", "ྜ", "ྜྷ", "ྞ", "ྟ", "ྠ", "ྡ", "ྡྷ", "ྣ", "ྤ", "ྥ", "ྦ", "ྦྷ",
    "ྨ", "ྩ", "ྪ", "ྫ", "ྫྷ", "ྭ", "ྮ", "ྯ", "ྰ", "ྱ", "ྲ", "ླ", "ྴ", "ྵ",
    "ྶ", "ྷ", "ྸ", "ྐྵ", "ྺ", "ྻ", "ྼ", "࿆", "ႂ", "ႅ", "ႆ", "ႍ", "ႝ", "ჼ",
    "឴", "឵", "ិ", "ី", "ឹ", "ឺ", "ុ", "ូ", "ួ", "ំ", "៉", "៊", "់", "៌",
    "៍", "៎", "៏", "័", "៑", "្", "៓", "ៗ", "៝", "ᢅ", "ᢆ", "ᢩ", "ᪧ", "᪰",
    "᪱", "᪲", "᪳", "᪴", "᪵", "᪶", "᪷", "᪸", "᪹", "᪺", "᪻", "᪼", "᪽", "᪾",
    "ᪿ", "ᫀ", "᫁", "᫂", "᫃", "᫄", "᫅", "᫆", "᫇", "᫈", "᫉", "᫊", "᫋", "ᫌ",
    "ᫍ", "ᫎ", "᫏", "᫐", "᫑", "᫒", "᫓", "᫔", "᫕", "᫖", "᫗", "᫘", "᫙", "᫚",
    "᫛", "᫜", "᫝", "᫠", "᫡", "᫢", "᫣", "᫤", "᫥", "᫦", "᫧", "᫨", "᫩", "᫪",
    "᫫", "ᮀ", "ᮁ", "ᮢ", "ᮣ", "ᮤ", "ᮥ", "ᮨ", "ᮩ", "᮫", "ᮬ", "ᮭ", "᯦", "ᯨ",
    "ᯩ", "ᯭ", "ᯯ", "ᯰ", "ᯱ", "᳐", "᳑", "᳒", "᳔", "᳕", "᳖", "᳗", "᳘", "᳙",
    "᳚", "᳛", "᳜", "᳝", "᳞", "᳟", "᳠", "᳢", "᳣", "᳤", "᳥", "᳦", "᳧", "᳨",
    "᳭", "᳴", "᳸", "᳹", "ᶛ", "ᶜ", "ᶝ", "ᶞ", "ᶟ", "ᶠ", "ᶡ", "ᶢ", "ᶣ", "ᶤ",
    "ᶥ", "ᶦ", "ᶧ", "ᶨ", "ᶩ", "ᶪ", "ᶫ", "ᶬ", "ᶭ", "ᶮ", "ᶯ", "ᶰ", "ᶱ", "ᶲ",
    "ᶳ", "ᶴ", "ᶵ", "ᶶ", "ᶷ", "ᶸ", "ᶹ", "ᶺ", "ᶻ", "ᶼ", "ᶽ", "ᶾ", "ᶿ", "᷀",
    "᷁", "᷂", "᷃", "᷄", "᷅", "᷆", "᷇", "᷈", "᷉", "᷊", "᷋", "᷌", "᷍", "᷎",
    "᷏", "᷐", "᷑", "᷒", "ᷓ", "ᷔ", "ᷕ", "ᷖ", "ᷗ", "ᷘ", "ᷙ", "ᷚ", "ᷛ", "ᷜ",
    "ᷝ", "ᷞ", "ᷟ", "ᷠ", "ᷡ", "ᷢ", "ᷣ", "ᷤ", "ᷥ", "ᷦ", "ᷧ", "ᷨ", "ᷩ", "ᷪ",
    "ᷫ", "ᷬ", "ᷭ", "ᷮ", "ᷯ", "ᷰ", "ᷱ", "ᷲ", "ᷳ", "ᷴ", "᷵", "᷶", "᷷", "᷸",
    "᷹", "᷺", "᷻", "᷼", "᷽", "᷾", "᷿", "᾽", "᾿", "῀", "῁", "῍", "῎", "῏",
    "῝", "῞", "῟", "῭", "΅", "`", "´", "῾", "ₐ", "ₑ", "ₒ", "ₓ", "ₔ", "ₕ",
    "ₖ", "ₗ", "ₘ", "ₙ", "ₚ", "ₛ", "ₜ", "⃐", "⃑", "⃒", "⃓", "⃔", "⃕", "⃖",
    "⃗", "⃘", "⃙", "⃚", "⃛", "⃜", "⃝", "⃞", "⃟", "⃠", "⃡", "⃢", "⃣", "⃤",
    "⃥", "⃦", "⃧", "⃨", "⃩", "⃪", "⃫", "⃬", "⃭", "⃮", "⃯", "⃰", "⳯", "⳰",
    "⳱", "ⷠ", "ⷡ", "ⷢ", "ⷣ", "ⷤ", "ⷥ", "ⷦ", "ⷧ", "ⷨ", "ⷩ", "ⷪ", "ⷫ", "ⷬ",
    "ⷭ", "ⷮ", "ⷯ", "ⷰ", "ⷱ", "ⷲ", "ⷳ", "ⷴ", "ⷵ", "ⷶ", "ⷷ", "ⷸ", "ⷹ", "ⷺ",
    "ⷻ", "ⷼ", "ⷽ", "ⷾ", "ⷿ", "゙", "゚", "゛", "゜", "ゝ", "ゞ", "ー", "ヽ", "ヾ",
    "ꓸ", "ꓹ", "ꓺ", "ꓻ", "ꓼ", "ꓽ", "ꚜ", "ꚝ", "ꚞ", "ꚟ", "꛰", "꛱", "ꞈ", "꞉",
    "꞊", "꟱", "ꟲ", "ꟳ", "ꟴ", "ꟸ", "ꟹ", "꣄", "ꣅ", "꣠", "꣡", "꣢", "꣣", "꣤",
    "꣥", "꣦", "꣧", "꣨", "꣩", "꣪", "꣫", "꣬", "꣭", "꣮", "꣯", "꣰", "꣱", "ꣿ",
    "ꦀ", "ꦁ", "ꦂ", "꦳", "ꦶ", "ꦷ", "ꦸ", "ꦹ", "ꦼ", "ꦽ", "ꧏ", "ꧥ", "ꧦ", "ꪰ",
    "ꪲ", "ꪳ", "ꪴ", "ꪷ", "ꪸ", "ꪾ", "꪿", "꫁", "ꫝ", "ꫬ", "ꫭ", "ꫳ", "ꫴ", "꫶",
    "ꯥ", "ꯨ", "꯭", "﮲", "﮳", "﮴", "﮵", "﮶", "﮷", "﮸", "﮹", "﮺", "﮻", "﮼",
    "﮽", "﮾", "﮿", "﯀", "﯁", "﯂", "﻿", "ﾞ", "ﾟ", "￣", "￹", "￺", "￻"}
\* Final_Sigma: a cased letter comes before cs[i] and none after it, the
\* case-ignorable characters in between not counting
AfterCased(cs, i) ==
    \E j \in 1..(i - 1) :
        cs[j] \in Cased /\ \A k \in (j + 1)..(i - 1) : cs[k] \in CaseIgnorable
BeforeCased(cs, i) ==
    \E j \in (i + 1)..Len(cs) :
        cs[j] \in Cased /\ \A k \in (i + 1)..(j - 1) : cs[k] \in CaseIgnorable
FinalSigma(cs, i) == AfterCased(cs, i) /\ ~BeforeCased(cs, i)

\* the lower case of the character c, which is not a final sigma
LowerOf(c) ==
    IF \E j \in 1..Len(UpperCase) : UpperCase[j] = c
    THEN LowerCase[CHOOSE j \in 1..Len(UpperCase) : UpperCase[j] = c]
    ELSE IF c \in NoLowerCase THEN CHOOSE d \in {} : d # c
    ELSE c

\* String.prototype.toLowerCase
ToLowerCase(cs) ==
    [i \in 1..Len(cs) |->
        IF cs[i] = "Σ" /\ FinalSigma(cs, i) THEN "ς" ELSE LowerOf(cs[i])]

RECURSIVE Str(_)
Str(cs) == IF cs = <<>> THEN "" ELSE cs[1] \o Str(Tail(cs))

Digit == <<"0", "1", "2", "3", "4", "5", "6", "7", "8", "9">>

RECURSIVE Decimal(_)
\* the characters of `${n}` for an integer n >= 0
Decimal(n) ==
    IF n < 10 THEN <<Digit[n + 1]>>
    ELSE Append(Decimal(n \div 10), Digit[(n % 10) + 1])

(***************************************************************************)
(* path.join(dir, name) on POSIX for a relative dir and a name that does   *)
(* not end in "/": the two are joined by "/" and the result normalised.    *)
(***************************************************************************)
RECURSIVE Split(_, _, _)
\* the segments of cs[i..], seg being the characters since the last "/"
Split(cs, i, seg) ==
    IF i > Len(cs) THEN <<seg>>
    ELSE IF cs[i] = "/" THEN <<seg>> \o Split(cs, i + 1, <<>>)
    ELSE Split(cs, i + 1, Append(seg, cs[i]))

\* normalizeString with allowAboveRoot: empty and "." segments are dropped,
\* ".." removes the segment before it, or stays when there is none to remove
PushSegment(res, seg) ==
    IF seg = <<>> \/ seg = <<".">> THEN res
    ELSE IF seg = <<".", ".">> /\ res # <<>> /\ res[Len(res)] # <<".", ".">>
    THEN SubSeq(res, 1, Len(res) - 1)
    ELSE Append(res, seg)

RECURSIVE Normalize(_, _, _)
Normalize(segs, i, res) ==
    IF i > Len(segs) THEN res ELSE Normalize(segs, i + 1, PushSegment(res, segs[i]))

RECURSIVE Joined(_)
Joined(segs) ==
    IF Len(segs) = 1 THEN segs[1]
    ELSE segs[1] \o <<"/">> \o Joined(Tail(segs))

\* "." when nothing is left
PathOf(segs) == IF segs = <<>> THEN <<".">> ELSE Joined(segs)

PathJoin(dir, name) == PathOf(Normalize(Split(dir \o <<"/">> \o name, 1, <<>>), 1, <<>>))

(***************************************************************************)
(* generateCryptoImages(cryptoData).  Of the SVG text the model keeps what *)
(* depends on the asset: the symbol, the accent colour, the percentage     *)
(* line and the title's trend word.  stamps are the values Date.now()      *)
(* returns in the two iterations; mkdirFails and failWrite (0: none, k:    *)
(* the k-th writeFileSync) are the file-system calls that throw.           *)
(***************************************************************************)
ImageCount == 2

\* const imagesDir = './generated-images'
imagesDir == <<".", "/", "g", "e", "n", "e", "r", "a", "t", "e", "d", "-", "i", "m", "a", "g", "e", "s">>

\* cryptoData[i] || { name: 'Crypto', symbol: 'BTC', priceChange24h: 0 }
Placeholder == [name |-> "Crypto", symbol |-> <<"B", "T", "C">>, priceChange24h |-> Zero(FALSE)]
ProjectAt(cryptoData, i) == IF i + 1 <= Len(cryptoData) THEN cryptoData[i + 1] ELSE Placeholder

\* a test that counts zero as a rise
isPositiveOrZero(project) == FGe(project.priceChange24h, Zero(FALSE))

\* project.priceChange24h > 0
isPositive(project) == FGt(project.priceChange24h, Zero(FALSE))
trendOf(project) == IF isPositive(project) THEN "rising" ELSE "falling"
colorOf(project) == IF isPositive(project) THEN "#27ae60" ELSE "#e74c3c"

\* a name built from the symbol and the timestamp alone
ImageFileNameNoIndex(project, stamp, i) ==
    <<"c", "r", "y", "p", "t", "o", "-">> \o ToLowerCase(project.symbol) \o <<"-">>
        \o Decimal(stamp) \o <<".", "s", "v", "g">>

\* `crypto-${project.symbol.toLowerCase()}-${Date.now()}-${i + 1}.svg`, as
\* characters
ImageFileName(project, stamp, i) ==
    <<"c", "r", "y", "p", "t", "o", "-">> \o ToLowerCase(project.symbol) \o <<"-">>
        \o Decimal(stamp) \o <<"-">> \o Decimal(i + 1) \o <<".", "s", "v", "g">>

ImageSvg(project, i) ==
    [symbol  |-> Str(project.symbol),
     color   |-> colorOf(project),
     percent |-> SignedPercent(project.priceChange24h),
     title   |-> project.name \o " - "
                 \o (IF trendOf(project) = "rising" THEN "RISING" ELSE "FALLING") \o " TREND"]

\* lines 240-251: filePath is path.join(imagesDir, fileName)
ImageEntry(project, fileName, trend) ==
    [fileName    |-> Str(fileName),
     filePath    |-> Str(PathJoin(imagesDir, fileName)),
     description |-> project.name \o " (" \o Str(project.symbol) \o ") showing "
                     \o trend \o " trend with "
                     \o SignedPercent(project.priceChange24h) \o " price change",
     project     |-> project.name,
     symbol      |-> Str(project.symbol),
     trend       |-> trend]

\* the entry pushed to the images array
ImageMeta(project, stamp, i) ==
    ImageEntry(project, ImageFileName(project, stamp, i), trendOf(project))

\* one iteration that completed: the document written, then the push
Wrote(acc, svg, meta) ==
    [acc EXCEPT !.images = Append(@, meta),
                !.svgs   = Append(@, svg),
                !.files  = Append(@, meta.filePath)]

RECURSIVE ImageLoop(_, _, _, _, _)
\* iterations i, i+1, ... of the for loop, acc being what the earlier ones did
ImageLoop(cryptoData, stamps, failWrite, i, acc) ==
    IF i = ImageCount THEN acc
    ELSE IF Throws(ProjectAt(cryptoData, i).priceChange24h) \/ failWrite = i + 1
    THEN [acc EXCEPT !.threw = TRUE]
    ELSE ImageLoop(cryptoData, stamps, failWrite, i + 1,
                   Wrote(acc, ImageSvg(ProjectAt(cryptoData, i), i),
                         ImageMeta(ProjectAt(cryptoData, i), stamps[i + 1], i)))

\* what the call does: threw (an exception left it), images (the value it
\* returned, <<>> when it threw), svgs and files (the documents written and
\* their paths, in order)
NoImages == [threw |-> FALSE, images |-> <<>>, svgs |-> <<>>, files |-> <<>>]

\* a call that hands back the entries pushed before the exception
ImagesReturnedPartial(ran) == ran

\* an exception leaves the caller without the images array
ImagesReturned(ran) == IF ran.threw THEN [ran EXCEPT !.images = <<>>] ELSE ran

generateCryptoImages(cryptoData, stamps, mkdirFails, failWrite) ==
    ImagesReturned(IF mkdirFails THEN [NoImages EXCEPT !.threw = TRUE]
                   ELSE ImageLoop(cryptoData, stamps, failWrite, 0, NoImages))

(***************************************************************************)
(* generatePriceCharts(cryptoData).  Of the SVG text the model keeps the   *)
(* scale, the y-axis tick label and one rect per asset (x, y, width,       *)
(* height, class) with its value label; the captions are left out.         *)
(***************************************************************************)
width == 800
height == 600
marginTop == 60
marginRight == 50
marginBottom == 120
marginLeft == 80
chartWidth == width - marginLeft - marginRight
chartHeight == height - marginTop - marginBottom

\* Math.max(...cryptoData.map(p => Math.abs(p.priceChange24h)))
maxChangeOf(cryptoData) ==
    MathMax([i \in 1..Len(cryptoData) |-> MathAbs(cryptoData[i].priceChange24h)])

barWidthOf(cryptoData) ==
    FMul(FDiv(FromInt(chartWidth), FromInt(Len(cryptoData))), Tenths(7))
barSpacingOf(cryptoData) == FDiv(FromInt(chartWidth), FromInt(Len(cryptoData)))

centerY == FAdd(FromInt(marginTop), FDiv(FromInt(chartHeight), FromInt(2)))

\* Math.abs(project.priceChange24h) * (chartHeight / 2) / maxChange
barHeightOf(project, maxChange) ==
    FDiv(FMul(MathAbs(project.priceChange24h), FDiv(FromInt(chartHeight), FromInt(2))),
         maxChange)

barYOf(project, barHeight) ==
    IF FGe(project.priceChange24h, Zero(FALSE)) THEN FSub(centerY, barHeight) ELSE centerY

barClassOf(project) ==
    IF FGe(project.priceChange24h, Zero(FALSE)) THEN "positive-bar" ELSE "negative-bar"

\* the rect and value label the forEach callback appends for cryptoData[index]
Rect(project, index, barHeight, barWidth, barSpacing) ==
    [x      |-> FAdd(FAdd(FromInt(marginLeft), FMul(FromInt(index), barSpacing)),
                     FDiv(FSub(barSpacing, barWidth), FromInt(2))),
     y      |-> barYOf(project, barHeight),
     width  |-> barWidth,
     height |-> barHeight,
     class  |-> barClassOf(project),
     label  |-> SignedPercent(project.priceChange24h),
     symbol |-> Str(project.symbol)]

Bar(project, index, maxChange, barWidth, barSpacing) ==
    Rect(project, index, barHeightOf(project, maxChange), barWidth, barSpacing)

RECURSIVE Bars(_, _, _, _, _)
\* cryptoData.forEach((project, index) => ...) from index on
Bars(cryptoData, index, maxChange, barWidth, barSpacing) ==
    IF index >= Len(cryptoData) THEN <<>>
    ELSE <<Bar(cryptoData[index + 1], index, maxChange, barWidth, barSpacing)>>
         \o Bars(cryptoData, index + 1, maxChange, barWidth, barSpacing)

ChartFileName(stamp) == "price-chart-" \o ToString(stamp) \o ".svg"

\* fileName holds no "/", so path.join('./generated-charts', fileName) only
\* drops the leading "./"
ChartEntry(cryptoData, fileName) ==
    [fileName    |-> fileName,
     filePath    |-> "generated-charts/" \o fileName,
     description |-> "24-hour price change comparison chart for "
                     \o ToString(Len(cryptoData)) \o " trending crypto projects",
     type        |-> "price-change-bar-chart"]

\* the entry pushed to the charts array
ChartMeta(cryptoData, stamp) == ChartEntry(cryptoData, ChartFileName(stamp))

\* the document written: the scale, the top tick label and the rects
ChartSvg(cryptoData, maxChange, barWidth, barSpacing) ==
    [maxChange |-> maxChange,
     topLabel  |-> "+" \o ToFixed(maxChange, 0) \o "%",
     bars      |-> Bars(cryptoData, 0, maxChange, barWidth, barSpacing)]

ChartWritten(svg, meta) ==
    [threw |-> FALSE, charts |-> <<meta>>, docs |-> <<svg>>, files |-> <<meta.filePath>>]

\* what the call does: threw, charts (the value returned), docs (the
\* documents written) and files (their paths)
generatePriceCharts(cryptoData, stamp, mkdirFails, failWrite) ==
    IF \/ mkdirFails
       \/ (\E i \in 1..Len(cryptoData) : Throws(cryptoData[i].priceChange24h))
       \/ failWrite = 1
    THEN [threw |-> TRUE, charts |-> <<>>, docs |-> <<>>, files |-> <<>>]
    ELSE ChartWritten(ChartSvg(cryptoData, maxChangeOf(cryptoData), barWidthOf(cryptoData),
                               barSpacingOf(cryptoData)),
                      ChartMeta(cryptoData, stamp))

(***************************************************************************)
(* formatMainMessage(threadContent, cryptoData): the two reductions and    *)
(* the summary lines built from them.                                      *)
(***************************************************************************)
\* a reducer that lets a later element of equal value replace the maximum
GainerStepLast(max, project) ==
    IF FGe(project.priceChange24h, max.priceChange24h) THEN project ELSE max

\* (max, project) => project.priceChange24h > max.priceChange24h ? project : max
GainerStep(max, project) ==
    IF FGt(project.priceChange24h, max.priceChange24h) THEN project ELSE max

\* (min, project) => project.priceChange24h < min.priceChange24h ? project : min
LoserStep(min, project) ==
    IF FLt(project.priceChange24h, min.priceChange24h) THEN project ELSE min

RECURSIVE ReduceGainer(_, _)
\* s.reduce(GainerStep, max)
ReduceGainer(max, s) ==
    IF s = <<>> THEN max ELSE ReduceGainer(GainerStep(max, s[1]), Tail(s))

RECURSIVE ReduceLoser(_, _)
\* s.reduce(LoserStep, min)
ReduceLoser(min, s) ==
    IF s = <<>> THEN min ELSE ReduceLoser(LoserStep(min, s[1]), Tail(s))

\* threw: cryptoData[0] is undefined for an empty list and reading its name
\* throws, as does toFixed of an undefined percent change
Summary(threadContent, topGainer, topLoser) ==
    IF Throws(topGainer.priceChange24h) \/ Throws(topLoser.priceChange24h)
    THEN [threw |-> TRUE, message |-> <<>>]
    ELSE [threw   |-> FALSE,
          message |-> <<[threadContent |-> threadContent,
                         topGainer     |-> topGainer,
                         topLoser      |-> topLoser,
                         gainerLine    |-> topGainer.name \o " (" \o Str(topGainer.symbol) \o ") +"
                                           \o ToFixed(topGainer.priceChange24h, 1) \o "%",
                         loserLine     |-> topLoser.name \o " (" \o Str(topLoser.symbol) \o ") "
                                           \o ToFixed(topLoser.priceChange24h, 1) \o "%"]>>]

formatMainMessage(threadContent, cryptoData) ==
    IF cryptoData = <<>> THEN [threw |-> TRUE, message |-> <<>>]
    ELSE Summary(threadContent, ReduceGainer(cryptoData[1], cryptoData),
                 ReduceLoser(cryptoData[1], cryptoData))

(***************************************************************************)
(* fetchCryptoData().  The response of the trending endpoint is either a   *)
(* failure (fetch rejects, or the body is not JSON or is null) or a JSON   *)
(* object with or without a coins array; a coin may lack its item object.  *)
(* usd is data.price_change_percentage_24h.usd, Undefined when any part of *)
(* that path is absent.  draws[i] is what Math.random() returns for coin i *)
(* if it is called.                                                        *)
(***************************************************************************)
SliceLimit == 5

Snapshot(name, symbol, rank, change) ==
    [name |-> name, symbol |-> symbol, rank |-> rank, priceChange24h |-> change]

StaticFallback ==
    << Snapshot("Bitcoin",   <<"B", "T", "C">>,      1, Tenths(32)),
       Snapshot("Ethereum",  <<"E", "T", "H">>,      2, Tenths(-18)),
       Snapshot("Solana",    <<"S", "O", "L">>,      3, Tenths(85)),
       Snapshot("Cardano",   <<"A", "D", "A">>,      4, Tenths(41)),
       Snapshot("Avalanche", <<"A", "V", "A", "X">>, 5, Tenths(-23)) >>

\* the values JavaScript's || passes over: undefined, NaN, +0 and -0
IsFalsy(v) == v.k \in {"undefined", "NaN"} \/ IsZero(v)

\* Math.random() * 20 - 10
SyntheticChange(draw) == FSub(FMul(draw, FromInt(20)), FromInt(10))

\* coin.item.data?.price_change_percentage_24h?.usd || Math.random() * 20 - 10
PriceChangeOf(usd, draw) == IF IsFalsy(usd) THEN SyntheticChange(draw) ELSE usd

fetchCryptoData(response, draws) ==
    IF response.k = "fails" THEN StaticFallback
    ELSE IF ~response.hasCoins THEN <<>>
    ELSE LET coins == SubSeq(response.coins, 1,
                             IF Len(response.coins) < SliceLimit
                             THEN Len(response.coins) ELSE SliceLimit)
         IN  IF \E i \in 1..Len(coins) : ~coins[i].hasItem THEN StaticFallback
             ELSE [i \in 1..Len(coins) |->
                      Snapshot(coins[i].name, coins[i].symbol, i,
                               PriceChangeOf(coins[i].usd, draws[i]))]

(***************************************************************************)
(* sendToTelegram and sendImageToTelegram.  Each returns threw and the log *)
(* of the requests it made, one entry per request with its outcome.        *)
(* An outcome is "ok", "notOk" (the endpoint answered, response.ok false)  *)
(* or "netFail" (fetch rejected).  Both functions are also given one       *)
(* awaited operation at a time: an operation gives the position `at` the   *)
(* call has reached and the requests the operation made.                   *)
(***************************************************************************)
Outcomes == {"ok", "notOk", "netFail"}

Request(api, kind, fileName, description, outcome) ==
    [api |-> api, kind |-> kind, fileName |-> fileName, description |-> description,
     ok |-> outcome = "ok"]

\* r, then the operation s that followed it
Then(r, s) == [s EXCEPT !.log = r.log \o @]

\* a request whose non-OK answer is taken for a success
SendRequestIgnoringStatus(kind, fileName, description, hasChatId, outcome) ==
    IF ~hasChatId THEN [at |-> "thrown", log |-> <<>>]
    ELSE [at  |-> IF outcome = "netFail" THEN "thrown" ELSE "returned",
          log |-> <<Request("sendMessage", kind, fileName, description, outcome)>>]

\* lines 376-398 and 404-405: chatId.substring throws before any request
\* when chatId is undefined; else the request is awaited: fetch rejects
\* ("thrown"), the answer is ok ("returned"), or it is not and
\* response.text() is awaited next ("refused")
SendRequest(kind, fileName, description, hasChatId, outcome) ==
    IF ~hasChatId THEN [at |-> "thrown", log |-> <<>>]
    ELSE [at  |-> IF outcome = "ok" THEN "returned"
                  ELSE IF outcome = "notOk" THEN "refused" ELSE "thrown",
          log |-> <<Request("sendMessage", kind, fileName, description, outcome)>>]

\* lines 399-401: response.text() settles; resolved, the Error of line 401
\* is thrown, rejected, its own: an exception leaves the call either way
ErrorText == [at |-> "thrown", log |-> <<>>]

\* what the next awaited operation of a call of sendToTelegram standing at
\* `at` ("call" or "refused") may do
SendSteps(kind, at, hasChatId) ==
    IF at = "refused" THEN {ErrorText}
    ELSE {SendRequest(kind, "", "", hasChatId, outcome) : outcome \in Outcomes}

\* the whole call
sendToTelegram(kind, fileName, description, hasChatId, outcome) ==
    LET r == SendRequest(kind, fileName, description, hasChatId, outcome)
        e == IF r.at = "refused" THEN Then(r, ErrorText) ELSE r
    IN  [threw |-> e.at = "thrown", log |-> e.log]

(***************************************************************************)
(* sendImageToTelegram(imageData, token, chatId), one awaited operation at *)
(* a time.  A position is where the call stands: "call" (not begun),       *)
(* "body" (the document was refused; response.text() is awaited), "try"    *)
(* (the text of the !response.ok branch is next), "tryRefused" (that text  *)
(* was refused; sendToTelegram awaits response.text()), "catch" (the       *)
(* catch block is next), "catchRefused" (the text of the catch block was   *)
(* refused; response.text() is awaited), and at its end "returned" or      *)
(* "thrown".  Each operator gives the position reached, the value          *)
(* returned and the requests made.                                         *)
(***************************************************************************)
Document(imageData, upload) ==
    Request("sendDocument", "document", imageData.fileName, imageData.description, upload)

\* lines 464-465, t being an operation of the sendToTelegram call of line
\* 464: the call returns false after it, waits for the refusal's text, or
\* is left by its exception
CatchEnds(t) ==
    [at |-> IF t.at = "refused" THEN "catchRefused" ELSE t.at,
     returned |-> FALSE, log |-> t.log]

\* a catch block that gives up without sending the description
CatchBlockNoFallback(imageData, text2) ==
    [at |-> "thrown", returned |-> FALSE, log |-> <<>>]

\* lines 454-464: the catch block requests the description
CatchBlock(imageData, text2) ==
    CatchEnds(SendRequest("fallback", imageData.fileName, imageData.description,
                          TRUE, text2))

\* lines 411-434: readFails (fs.readFileSync throws) enters the catch block
\* before any await; otherwise the sendDocument request is awaited
CallBegins(imageData, readFails, upload, text2) ==
    IF readFails THEN CatchBlock(imageData, text2)
    ELSE [at       |-> IF upload = "ok" THEN "returned"
                       ELSE IF upload = "notOk" THEN "body" ELSE "catch",
          returned |-> upload = "ok",
          log      |-> <<Document(imageData, upload)>>]

\* line 437: await response.text(), inside the try block
BodyRead(bodyFails) ==
    [at |-> IF bodyFails THEN "catch" ELSE "try", returned |-> FALSE, log |-> <<>>]

\* lines 448-454, t being an operation of the sendToTelegram call of line
\* 448: return true after it, wait for the refusal's text, or enter the
\* catch block with its exception
TryEnds(t) ==
    [at |-> IF t.at = "refused" THEN "tryRefused"
            ELSE IF t.at = "thrown" THEN "catch" ELSE "returned",
     returned |-> t.at = "returned", log |-> t.log]

\* lines 438-448: the text requested from the !response.ok branch
TryFallback(imageData, text1) ==
    TryEnds(SendRequest("fallback", imageData.fileName, imageData.description,
                        TRUE, text1))

\* the next awaited operation of the call standing at `at`; in: readFails,
\* upload (the sendDocument request), bodyFails (response.text() rejects),
\* text1 and text2 (the text sent from the try branch, from the catch block)
Resume(imageData, at, in) ==
    IF at = "call" THEN CallBegins(imageData, in.readFails, in.upload, in.text2)
    ELSE IF at = "body" THEN BodyRead(in.bodyFails)
    ELSE IF at = "try" THEN TryFallback(imageData, in.text1)
    ELSE IF at = "tryRefused" THEN TryEnds(ErrorText)
    ELSE IF at = "catch" THEN CatchBlock(imageData, in.text2)
    ELSE CatchEnds(ErrorText)

\* what the next awaited operation of the call standing at `at` may do
Steps(imageData, at) ==
    IF at = "call"
    THEN {CallBegins(imageData, readFails, upload, text2) :
             readFails \in BOOLEAN, upload \in Outcomes, text2 \in Outcomes}
    ELSE IF at = "body" THEN {BodyRead(bodyFails) : bodyFails \in BOOLEAN}
    ELSE IF at = "try" THEN {TryFallback(imageData, text1) : text1 \in Outcomes}
    ELSE IF at = "tryRefused" THEN {TryEnds(ErrorText)}
    ELSE IF at = "catch" THEN {CatchBlock(imageData, text2) : text2 \in Outcomes}
    ELSE {CatchEnds(ErrorText)}

RECURSIVE Finish(_, _, _)
\* the call from where r stands to its end
Finish(imageData, in, r) ==
    IF r.at \in {"returned", "thrown"} THEN r
    ELSE Finish(imageData, in, Then(r, Resume(imageData, r.at, in)))

CallEnds(r) == [threw |-> r.at = "thrown", returned |-> r.returned, log |-> r.log]

sendImageToTelegram(imageData, readFails, upload, bodyFails, text1, text2) ==
    CallEnds(Finish(imageData,
                    [readFails |-> readFails, upload |-> upload, bodyFails |-> bodyFails,
                     text1 |-> text1, text2 |-> text2],
                    [at |-> "call", returned |-> FALSE, log |-> <<>>]))

(***************************************************************************)
(* The state.                                                              *)
(***************************************************************************)
VARIABLES
    pc,            \* where runAutomation is, or which function was applied
    env,           \* what each of the three environment variables holds
    response,      \* what the trending endpoint answered
    cryptoData,    \* the snapshot list
    threadContent, \* "ai", "template" or "" (not generated yet)
    images,        \* what generateCryptoImages returned
    svgs,          \* the image documents written
    charts,        \* what generatePriceCharts returned
    chartDocs,     \* the chart documents written
    files,         \* the paths written, in order
    message,       \* what formatMainMessage returned (<<>> or one message)
    sent,          \* the requests made to the Telegram endpoint
    idx,           \* the index i of the running send loop
    at,            \* where the running call of a send function stands
    threw,         \* an exception left the try block / the applied function
    now,           \* the clock Date.now() reads
    exitCode       \* -1 while running; 1 after process.exit(1); 0 at a normal end

vars == <<pc, env, response, cryptoData, threadContent, images, svgs, charts,
          chartDocs, files, message, sent, idx, at, threw, now, exitCode>>

rendered == <<images, svgs, charts, chartDocs, files>>

(***************************************************************************)
(* Bounds and input sets.                                                  *)
(***************************************************************************)
MaxLen == 3
MaxCoins == 2
MaxTick == 1

NoResponse == [k |-> "none", hasCoins |-> FALSE, coins |-> <<>>]
\* process.env.X: undefined when X is not in the environment, else the empty
\* string or a non-empty one
EnvValues == {"undefined", "empty", "value"}

\* only the non-empty string is truthy
Truthy(v) == v = "value"

\* v.substring exists: v is a string
IsString(v) == v # "undefined"

AllSet == [gemini |-> "value", token |-> "value", chatId |-> "value"]

\* the clock advances by 0..MaxTick ms from one Date.now() to the next
Ticks == 0..MaxTick

\* snapshots for the functions applied on their own: the spec's examples
\* (10 and -5), a tie (4.9 twice), zero, and the two invalid inputs
UnitSnapshots ==
    { Snapshot("Xcoin", <<"X">>, 1, FromInt(10)),
      Snapshot("Ycoin", <<"Y">>, 2, FromInt(-5)),
      Snapshot("Acoin", <<"A">>, 3, Tenths(49)),
      Snapshot("Bcoin", <<"B">>, 4, Tenths(49)),
      Snapshot("Zcoin", <<"Z">>, 5, Zero(FALSE)),
      Snapshot("Ncoin", <<"N">>, 6, NaN),
      Snapshot("Ucoin", <<"U">>, 7, Undefined) }

UnitLists == UNION {[1..n -> UnitSnapshots] : n \in 0..MaxLen}

\* a coin of the trending response
RawCoin(hasItem, name, symbol, usd) ==
    [hasItem |-> hasItem, name |-> name, symbol |-> symbol, usd |-> usd]

\* the trending list the responses are cut from: numeric, zero and absent
\* percent changes, two symbols that differ only by case, and a coin
\* without its item
Trending ==
    << RawCoin(TRUE, "Bitcoin", <<"B", "T", "C">>, Tenths(32)),
       RawCoin(TRUE, "Wrapped", <<"b", "t", "c">>, Tenths(-18)),
       RawCoin(TRUE, "Tether", <<"U", "S", "D", "T">>, Zero(FALSE)),
       RawCoin(TRUE, "Pepe", <<"P", "E", "P", "E">>, Undefined),
       RawCoin(FALSE, "", <<>>, Undefined) >>

RECURSIVE Listed(_, _)
\* the coins of Trending at the positions S, from position i on, in order
Listed(S, i) ==
    IF i > Len(Trending) THEN <<>>
    ELSE (IF i \in S THEN <<Trending[i]>> ELSE <<>>) \o Listed(S, i + 1)

\* a failure, a body without coins, or up to MaxCoins coins
Responses ==
    { [k |-> "fails", hasCoins |-> FALSE, coins |-> <<>>],
      [k |-> "json", hasCoins |-> FALSE, coins |-> <<>>] }
    \cup { [k |-> "json", hasCoins |-> TRUE, coins |-> Listed(S, 1)] :
             S \in {T \in SUBSET (1..Len(Trending)) : Cardinality(T) <= MaxCoins} }

\* Math.random() returns a double in [0, 1): 0, 0.5 and the largest one
RandomDraws ==
    { Zero(FALSE),
      FDiv(FromInt(1), FromInt(2)),
      [k |-> "num", neg |-> FALSE, m |-> <<Base - 1, Base - 1, Base - 1, 255>>, e |-> -53] }

(***************************************************************************)
(* The renderers and the summary applied on their own to a snapshot list   *)
(* (the file system works here; its failures are part of the pipeline).    *)
(***************************************************************************)
Blank ==
    /\ env = AllSet
    /\ response = NoResponse
    /\ threadContent = ""
    /\ images = <<>>
    /\ svgs = <<>>
    /\ charts = <<>>
    /\ chartDocs = <<>>
    /\ files = <<>>
    /\ message = <<>>
    /\ sent = <<>>
    /\ idx = 0
    /\ at = "call"
    /\ threw = FALSE
    /\ now = 1700000000
    /\ exitCode = -1

UnitInit ==
    /\ pc = "unit"
    /\ cryptoData \in UnitLists
    /\ Blank

CallGenerateCryptoImages ==
    /\ pc = "unit"
    /\ \E d1 \in Ticks, d2 \in Ticks :
         \E r \in {generateCryptoImages(cryptoData, <<now + d1, now + d1 + d2>>, FALSE, 0)} :
             /\ images' = r.images
             /\ svgs' = r.svgs
             /\ files' = r.files
             /\ threw' = r.threw
             /\ now' = now + d1 + d2
    /\ pc' = "unit.images"
    /\ UNCHANGED <<env, response, cryptoData, threadContent, charts, chartDocs,
                   message, sent, idx, at, exitCode>>

CallGeneratePriceCharts ==
    /\ pc = "unit"
    /\ \E d \in Ticks :
         \E r \in {generatePriceCharts(cryptoData, now + d, FALSE, 0)} :
             /\ charts' = r.charts
             /\ chartDocs' = r.docs
             /\ files' = r.files
             /\ threw' = r.threw
             /\ now' = now + d
    /\ pc' = "unit.charts"
    /\ UNCHANGED <<env, response, cryptoData, threadContent, images, svgs,
                   message, sent, idx, at, exitCode>>

CallFormatMainMessage ==
    /\ pc = "unit"
    /\ \E content \in {"ai", "template"} :
         \E r \in {formatMainMessage(content, cryptoData)} :
             /\ message' = r.message
             /\ threw' = r.threw
             /\ threadContent' = content
    /\ pc' = "unit.summary"
    /\ UNCHANGED <<env, response, cryptoData, rendered, sent, idx, at, now, exitCode>>

UnitNext ==
    \/ CallGenerateCryptoImages
    \/ CallGeneratePriceCharts
    \/ CallFormatMainMessage

UnitSpec == UnitInit /\ [][UnitNext]_vars

(***************************************************************************)
(* runAutomation(), one action per awaited step.  An exception in the try  *)
(* block moves to "catch".                                                 *)
(***************************************************************************)
Init ==
    /\ pc = "start"
    /\ env \in [gemini : EnvValues, token : EnvValues, chatId : EnvValues]
    /\ response = NoResponse
    /\ cryptoData = <<>>
    /\ threadContent = ""
    /\ images = <<>>
    /\ svgs = <<>>
    /\ charts = <<>>
    /\ chartDocs = <<>>
    /\ files = <<>>
    /\ message = <<>>
    /\ sent = <<>>
    /\ idx = 0
    /\ at = "call"
    /\ threw = FALSE
    /\ now = 1700000000
    /\ exitCode = -1

\* lines 14-24
CheckEnvironment ==
    /\ pc = "start"
    /\ IF Truthy(env.gemini) /\ Truthy(env.token) /\ Truthy(env.chatId)
       THEN pc' = "import" /\ threw' = FALSE
       ELSE pc' = "catch" /\ threw' = TRUE
    /\ UNCHANGED <<env, response, cryptoData, threadContent, rendered, message,
                   sent, idx, at, now, exitCode>>

\* lines 28-29: the dynamic import resolves or rejects
LoadGemini ==
    /\ pc = "import"
    /\ \E loaded \in BOOLEAN :
         IF loaded THEN pc' = "startup" /\ threw' = FALSE
         ELSE pc' = "catch" /\ threw' = TRUE
    /\ UNCHANGED <<env, response, cryptoData, threadContent, rendered, message,
                   sent, idx, at, now, exitCode>>

\* line 32, one awaited operation of the call
SendStartup ==
    /\ pc = "startup"
    /\ \E r \in SendSteps("startup", at, IsString(env.chatId)) :
         /\ sent' = sent \o r.log
         /\ threw' = (r.at = "thrown")
         /\ pc' = IF r.at = "thrown" THEN "catch"
                  ELSE IF r.at = "refused" THEN "startup" ELSE "fetch"
         /\ at' = IF r.at = "refused" THEN "refused" ELSE "call"
    /\ UNCHANGED <<env, response, cryptoData, threadContent, rendered, message,
                   idx, now, exitCode>>

\* line 36
FetchCryptoData ==
    /\ pc = "fetch"
    /\ \E resp \in Responses :
         \E draws \in [1..Len(resp.coins) -> RandomDraws] :
            /\ response' = resp
            /\ cryptoData' = fetchCryptoData(resp, draws)
    /\ pc' = "thread"
    /\ UNCHANGED <<env, threadContent, rendered, message, sent, idx, at, threw, now, exitCode>>

\* line 40: the model's text, or the template when the model call fails
\* (every percent change fetchCryptoData yields is a number, so neither
\* path throws)
GenerateThreadContent ==
    /\ pc = "thread"
    /\ \E content \in {"ai", "template"} : threadContent' = content
    /\ pc' = "images"
    /\ UNCHANGED <<env, response, cryptoData, rendered, message, sent, idx, at, threw,
                   now, exitCode>>

\* line 44
GenerateCryptoImages ==
    /\ pc = "images"
    /\ \E d1 \in Ticks, d2 \in Ticks, mkdirFails \in BOOLEAN, failWrite \in 0..ImageCount :
         \E r \in {generateCryptoImages(cryptoData, <<now + d1, now + d1 + d2>>,
                                        mkdirFails, failWrite)} :
             /\ images' = r.images
             /\ svgs' = r.svgs
             /\ files' = files \o r.files
             /\ threw' = r.threw
             /\ now' = now + d1 + d2
             /\ pc' = IF r.threw THEN "catch" ELSE "charts"
    /\ UNCHANGED <<env, response, cryptoData, threadContent, charts, chartDocs,
                   message, sent, idx, at, exitCode>>

\* line 48
GeneratePriceCharts ==
    /\ pc = "charts"
    /\ \E d \in Ticks, mkdirFails \in BOOLEAN, failWrite \in 0..1 :
         \E r \in {generatePriceCharts(cryptoData, now + d, mkdirFails, failWrite)} :
             /\ charts' = r.charts
             /\ chartDocs' = r.docs
             /\ files' = files \o r.files
             /\ threw' = r.threw
             /\ now' = now + d
             /\ pc' = IF r.threw THEN "catch" ELSE "main"
    /\ UNCHANGED <<env, response, cryptoData, threadContent, images, svgs,
                   message, sent, idx, at, exitCode>>

\* where the try block goes once the loop over images (then charts) is at i
AfterSend(phase, i) ==
    IF phase = "sendImages" /\ i < Len(images) THEN "sendImages"
    ELSE IF phase = "sendImages" /\ 0 < Len(charts) THEN "sendCharts"
    ELSE IF phase = "sendCharts" /\ i < Len(charts) THEN "sendCharts"
    ELSE "done"

\* line 52: formatMainMessage returns the message, which the call of line
\* 53 hands to fetch before the program waits for the answer, or throws
FormatMainMessage ==
    /\ pc = "main"
    /\ message = <<>>
    /\ \E m \in {formatMainMessage(threadContent, cryptoData)} :
         /\ message' = m.message
         /\ threw' = m.threw
         /\ pc' = IF m.threw THEN "catch" ELSE "main"
    /\ UNCHANGED <<env, response, cryptoData, threadContent, rendered, sent, idx, at,
                   now, exitCode>>

\* line 53, one awaited operation of the call of sendToTelegram at a time;
\* then the first loop begins
SendMainMessage ==
    /\ pc = "main"
    /\ message # <<>>
    /\ \E r \in SendSteps("main", at, IsString(env.chatId)) :
         /\ sent' = sent \o r.log
         /\ threw' = (r.at = "thrown")
         /\ pc' = IF r.at = "thrown" THEN "catch"
                  ELSE IF r.at = "refused" THEN "main"
                  ELSE AfterSend("sendImages", 0)
         /\ at' = IF r.at = "refused" THEN "refused" ELSE "call"
    /\ idx' = 0
    /\ UNCHANGED <<env, response, cryptoData, threadContent, rendered, message, now,
                   exitCode>>

\* one awaited operation of sendImageToTelegram(list[idx + 1]); an exception
\* that leaves the call leaves the try block
SendStep(phase, list) ==
    /\ pc = phase
    /\ at # "sleep"
    /\ \E r \in Steps(list[idx + 1], at) :
         /\ sent' = sent \o r.log
         /\ threw' = (r.at = "thrown")
         /\ pc' = IF r.at = "thrown" THEN "catch" ELSE phase
         /\ at' = IF r.at = "thrown" THEN "call"
                  ELSE IF r.at = "returned" THEN "sleep" ELSE r.at
    /\ UNCHANGED <<env, response, cryptoData, threadContent, rendered, message,
                   idx, now, exitCode>>

\* await sleep(2000), then i++ and the loop's test
SleepStep(phase) ==
    /\ pc = phase
    /\ at = "sleep"
    /\ at' = "call"
    /\ pc' = AfterSend(phase, idx + 1)
    /\ idx' = IF AfterSend(phase, idx + 1) = phase THEN idx + 1 ELSE 0
    /\ UNCHANGED <<env, response, cryptoData, threadContent, rendered, message,
                   sent, threw, now, exitCode>>

\* line 58
SendImage == SendStep("sendImages", images)

\* line 59
SleepAfterImage == SleepStep("sendImages")

\* line 65
SendChart == SendStep("sendCharts", charts)

\* line 66
SleepAfterChart == SleepStep("sendCharts")

\* line 69: the try block ends and the process with it
Complete ==
    /\ pc = "done"
    /\ pc' = "exited"
    /\ exitCode' = 0
    /\ UNCHANGED <<env, response, cryptoData, threadContent, rendered, message,
                   sent, idx, at, threw, now>>

\* lines 71-83, one awaited operation at a time: the failure notification
\* (sendToTelegram reads the environment again; the endpoint answers as it
\* will) and, once the call has returned or thrown, process.exit(1)
Catch ==
    /\ pc = "catch"
    /\ \E r \in SendSteps("failure", at, IsString(env.chatId)) :
         /\ sent' = sent \o r.log
         /\ pc' = IF r.at = "refused" THEN "catch" ELSE "exited"
         /\ at' = IF r.at = "refused" THEN "refused" ELSE "call"
         /\ exitCode' = IF r.at = "refused" THEN -1 ELSE 1
    /\ UNCHANGED <<env, response, cryptoData, threadContent, rendered, message,
                   idx, threw, now>>

Next ==
    \/ CheckEnvironment
    \/ LoadGemini
    \/ SendStartup
    \/ FetchCryptoData
    \/ GenerateThreadContent
    \/ GenerateCryptoImages
    \/ GeneratePriceCharts
    \/ FormatMainMessage
    \/ SendMainMessage
    \/ SendImage
    \/ SleepAfterImage
    \/ SendChart
    \/ SleepAfterChart
    \/ Complete
    \/ Catch

Spec == Init /\ [][Next]_vars

(***************************************************************************)
(* Properties.  The first group is stated of the functions applied on      *)
(* their own (UnitSpec), the second of the pipeline (Spec).                *)
(***************************************************************************)
\* every percent change of s is a finite number (not NaN, not undefined)
AllNumbers(s) == \A i \in 1..Len(s) : s[i].priceChange24h.k = "num"

\* v is a number above zero
Positive(v) == v.k \in {"num", "Infinity"} /\ ~v.neg /\ ~IsZero(v)

\* s[i] is the first element of s with the largest (smallest) percent change
FirstMaxAt(s, i) ==
    /\ \A j \in 1..Len(s) : NumCmp(s[j].priceChange24h, s[i].priceChange24h) <= 0
    /\ \A j \in 1..(i - 1) : NumCmp(s[j].priceChange24h, s[i].priceChange24h) < 0

FirstMinAt(s, i) ==
    /\ \A j \in 1..Len(s) : NumCmp(s[j].priceChange24h, s[i].priceChange24h) >= 0
    /\ \A j \in 1..(i - 1) : NumCmp(s[j].priceChange24h, s[i].priceChange24h) > 0

\* C1: for every non-empty list of numeric snapshots, formatMainMessage
\* returns a summary whose topGainer is the first element in input order
\* with the maximum percent change and whose topLoser is the first element
\* with the minimum percent change.
C1_FirstExtremes ==
    (pc = "unit.summary" /\ cryptoData # <<>> /\ AllNumbers(cryptoData)) =>
        /\ ~threw
        /\ Len(message) = 1
        /\ \E i \in 1..Len(cryptoData) :
              FirstMaxAt(cryptoData, i) /\ message[1].topGainer = cryptoData[i]
        /\ \E i \in 1..Len(cryptoData) :
              FirstMinAt(cryptoData, i) /\ message[1].topLoser = cryptoData[i]

\* a summary of three numeric snapshots where the second and third, of
\* different names, tie above the first: the second is the gainer
C1_TieAfterFirst ==
    /\ pc = "unit.summary"
    /\ ~threw
    /\ Len(cryptoData) = 3
    /\ AllNumbers(cryptoData)
    /\ cryptoData[2].name # cryptoData[3].name
    /\ NumCmp(cryptoData[2].priceChange24h, cryptoData[3].priceChange24h) = 0
    /\ NumCmp(cryptoData[1].priceChange24h, cryptoData[2].priceChange24h) < 0
    /\ message[1].topGainer = cryptoData[2]
    /\ message[1].topLoser = cryptoData[1]

\* C2: when every asset of a non-empty list has percent change 0,
\* generatePriceCharts returns and every bar it wrote has height 0.
C2_ZeroHeights ==
    (/\ pc = "unit.charts"
     /\ cryptoData # <<>>
     /\ \A i \in 1..Len(cryptoData) : IsZero(cryptoData[i].priceChange24h)) =>
        /\ ~threw
        /\ Len(chartDocs) = 1
        /\ \A i \in 1..Len(chartDocs[1].bars) : IsZero(chartDocs[1].bars[i].height)

\* C4: generatePriceCharts applied to the empty list throws, writes no
\* file and returns no chart.
C4_EmptyFailsFast ==
    (pc = "unit.charts" /\ cryptoData = <<>>) =>
        threw /\ files = <<>> /\ charts = <<>>

\* whether M * 2^E = N * 2^F
ScaledEq(M, E, N, F) ==
    IF E >= F THEN BCmp(BShl(M, E - F), N) = 0 ELSE BCmp(M, BShl(N, F - E)) = 0

\* whether a * b = c * d as real numbers, for finite doubles
SameProduct(a, b, c, d) ==
    IF IsZero(a) \/ IsZero(b) THEN IsZero(c) \/ IsZero(d)
    ELSE /\ ~IsZero(c)
         /\ ~IsZero(d)
         /\ ScaledEq(BMul(a.m, b.m), a.e + b.e, BMul(c.m, d.m), c.e + d.e)

\* s[k] has the largest magnitude of s, and it is not zero
LargestAt(s, k) ==
    /\ ~IsZero(s[k].priceChange24h)
    /\ \A j \in 1..Len(s) : MagCmp(s[j].priceChange24h, s[k].priceChange24h) <= 0

\* C5: for a non-empty list of numbers with a largest magnitude above zero,
\* every bar's height h satisfies h * maxAbsChange = |percent change| * 210
\* exactly; in particular the bar of the largest magnitude is exactly 210
\* high and the heights are in the ratio of the magnitudes.
C5_ExactScale ==
    (pc = "unit.charts" /\ cryptoData # <<>> /\ AllNumbers(cryptoData)) =>
        \A k \in 1..Len(cryptoData) :
            LargestAt(cryptoData, k) =>
                /\ ~threw
                /\ Len(chartDocs) = 1
                /\ Len(chartDocs[1].bars) = Len(cryptoData)
                /\ \A i \in 1..Len(cryptoData) :
                      /\ chartDocs[1].bars[i].height.k = "num"
                      /\ SameProduct(chartDocs[1].bars[i].height,
                                     cryptoData[k].priceChange24h,
                                     cryptoData[i].priceChange24h,
                                     FromInt(chartHeight \div 2))

\* asset i of the list is one of those the image loop renders and its
\* percent change is NaN or undefined
InvalidAt(s, i) == i <= Len(s) /\ IsNaN(s[i].priceChange24h)

\* C7: when an asset generateCryptoImages renders has a NaN or undefined
\* percent change, the call does not throw, the asset's percentage text is
\* "0.0%" and its trend is "falling".
C7_TotalOnInvalid ==
    (pc = "unit.images" /\ \E i \in 1..ImageCount : InvalidAt(cryptoData, i)) =>
        /\ ~threw
        /\ Len(images) = ImageCount
        /\ \A i \in 1..ImageCount :
              InvalidAt(cryptoData, i) =>
                  svgs[i].percent = "0.0%" /\ images[i].trend = "falling"

\* C8: every image generateCryptoImages returns has trend "rising" when the
\* asset's percent change is above zero and "falling" otherwise, and its
\* document's accent colour is the green #27ae60 when the trend is "rising"
\* and the red #e74c3c when it is "falling".
C8_TrendAndColour ==
    pc = "unit.images" =>
        \A i \in 1..Len(images) :
            /\ images[i].trend =
                  (IF Positive(ProjectAt(cryptoData, i - 1).priceChange24h)
                   THEN "rising" ELSE "falling")
            /\ svgs[i].color = (IF images[i].trend = "rising" THEN "#27ae60" ELSE "#e74c3c")

\* two images of one call: the first for a change of zero, falling and red,
\* the second for a change above zero, rising and green
C8_ZeroThenRise ==
    /\ pc = "unit.images"
    /\ Len(images) = 2
    /\ Len(cryptoData) >= 2
    /\ IsZero(cryptoData[1].priceChange24h)
    /\ images[1].trend = "falling"
    /\ svgs[1].color = "#e74c3c"
    /\ Positive(cryptoData[2].priceChange24h)
    /\ images[2].trend = "rising"
    /\ svgs[2].color = "#27ae60"

\* 2^-40, far above the rounding error of a sum near 270
Tolerance == Double(FALSE, <<0, 0, 0, 128>>, -92)

\* v is the baseline's y up to rounding
OnBaseline(v) == FLt(MathAbs(FSub(v, centerY)), Tolerance)

\* C10: in the chart of a non-empty list of numbers there is one bar per
\* asset, in input order from left to right; the bar of a change >= 0 is
\* styled positive and ends on the baseline (y + height), the bar of a
\* change < 0 is styled negative and starts on it (y), and every height
\* is >= 0.
C10_BarsFromBaseline ==
    (pc = "unit.charts" /\ cryptoData # <<>> /\ AllNumbers(cryptoData)) =>
        /\ ~threw
        /\ Len(chartDocs) = 1
        /\ Len(chartDocs[1].bars) = Len(cryptoData)
        /\ \A i \in 1..Len(cryptoData) :
              /\ chartDocs[1].bars[i].symbol = Str(cryptoData[i].symbol)
              /\ FGe(chartDocs[1].bars[i].height, Zero(FALSE))
              /\ IF FGe(cryptoData[i].priceChange24h, Zero(FALSE))
                 THEN /\ chartDocs[1].bars[i].class = "positive-bar"
                      /\ OnBaseline(FAdd(chartDocs[1].bars[i].y, chartDocs[1].bars[i].height))
                 ELSE /\ chartDocs[1].bars[i].class = "negative-bar"
                      /\ OnBaseline(chartDocs[1].bars[i].y)
        /\ \A i \in 1..(Len(cryptoData) - 1) :
              FLt(chartDocs[1].bars[i].x, chartDocs[1].bars[i + 1].x)

\* C3: whenever runAutomation is about to call generateCryptoImages or
\* generatePriceCharts, the snapshot list it passes is not empty.
C3_RenderersGetData == pc \in {"images", "charts"} => cryptoData # <<>>

\* C6: of a response whose coins all have their item, each snapshot carries
\* the percent change the source supplied when that is a number, and a
\* value in [-10, 10] when the source supplied none.
C6_SourceValueKept ==
    (/\ response.k = "json"
     /\ response.hasCoins
     /\ \A i \in 1..Len(response.coins) : response.coins[i].hasItem) =>
        /\ Len(cryptoData) = Len(response.coins)
        /\ \A i \in 1..Len(response.coins) :
              IF response.coins[i].usd.k = "num"
              THEN cryptoData[i].priceChange24h = response.coins[i].usd
              ELSE /\ FGe(cryptoData[i].priceChange24h, FromInt(-10))
                   /\ FGe(FromInt(10), cryptoData[i].priceChange24h)

\* C9: in every state of a run, any two images generateCryptoImages
\* returned have different file names.
C9_DistinctFileNames ==
    \A i \in 1..Len(images) : \A j \in 1..Len(images) :
        i # j => images[i].fileName # images[j].fileName

\* both images were made for the symbol btc at the same clock reading
C9_SameSymbolSameStamp ==
    /\ pc = "charts"
    /\ Len(images) = 2
    /\ images[1].fileName = "crypto-btc-" \o ToString(now) \o "-1.svg"
    /\ images[2].fileName = "crypto-btc-" \o ToString(now) \o "-2.svg"

\* the render calls have returned to runAutomation
AfterImages == pc \in {"charts", "main", "sendImages", "sendCharts", "done"}
AfterCharts == pc \in {"main", "sendImages", "sendCharts", "done"}

\* C11: a render call in which mkdirSync or writeFileSync throws fails as a
\* whole and hands no metadata to runAutomation: the images are none or all
\* ImageCount of them, the charts none or one, each entry names the file
\* written for it (files holds the completed writes in order), and
\* runAutomation goes on past a render call only with all its entries.
C11_MetadataOnlyForWrittenFiles ==
    /\ \/ images = <<>>
       \/ /\ Len(images) = ImageCount
          /\ Len(files) >= ImageCount
          /\ \A i \in 1..ImageCount : files[i] = images[i].filePath
    /\ \/ charts = <<>>
       \/ /\ Len(charts) = 1
          /\ Len(files) = ImageCount + 1
          /\ files[ImageCount + 1] = charts[1].filePath
    /\ AfterImages => Len(images) = ImageCount
    /\ AfterCharts => Len(charts) = 1
    /\ (pc = "catch" /\ Len(files) < ImageCount) => images = <<>>

\* the second image's write failed after the first file was written: the
\* call threw and runAutomation holds no image metadata
C11_SecondWriteFailed ==
    /\ pc = "catch"
    /\ threw
    /\ Len(files) = 1
    /\ images = <<>>
    /\ charts = <<>>

\* the requests the step made
NewRequests == SubSeq(sent', Len(sent) + 1, Len(sent'))

\* the artifact the running send loop is at
Artifact == IF pc = "sendImages" THEN images[idx + 1] ELSE charts[idx + 1]

\* req is a text message carrying the artifact's file name and description
TextFor(req, a) ==
    req.api = "sendMessage" /\ req.fileName = a.fileName /\ req.description = a.description

\* the artifact went out as a document
DocumentSent(log, a) ==
    \E i \in 1..Len(log) :
        log[i].api = "sendDocument" /\ log[i].fileName = a.fileName /\ log[i].ok

\* one awaited operation of sendImageToTelegram(a) in a send loop, new being
\* the requests it made: the call has returned when at' = "sleep" and has
\* thrown when pc' = "catch"
SendArtifactStep(new, a) ==
    /\ (at' = "sleep" \/ pc' = "catch") /\ ~DocumentSent(sent', a) =>
          \E i \in 1..Len(sent') : TextFor(sent'[i], a)
    /\ (\E i \in 1..Len(new) : TextFor(new[i], a) /\ new[i].ok) =>
          ~threw' /\ pc' = pc /\ at' = "sleep"
    /\ pc' = "catch" =>
          /\ threw'
          /\ sent' # <<>>
          /\ TextFor(sent'[Len(sent')], a)
          /\ ~sent'[Len(sent')].ok

\* the loop's step after the call returned
GoOnStep(new) == ~threw' /\ new = <<>> /\ pc' = AfterSend(pc, idx + 1)

\* C12: in the two send loops, when a call of sendImageToTelegram ends and
\* the artifact did not go out as a document, a text message with its file
\* name and description was requested; the operation in which such a text
\* message is answered ok ends the call without a throw, and after a call
\* returned the loop goes on to what follows; an operation aborts the run
\* only when the last request made so far is such a text message and it
\* failed (the throw itself may come one operation after that request,
\* when the refusal's text has been read).
C12_TextFallback ==
    [][(pc \in {"sendImages", "sendCharts"}) =>
          IF at = "sleep" THEN GoOnStep(NewRequests)
          ELSE SendArtifactStep(NewRequests, Artifact)]_vars

\* the loop went on after a refused document was followed by an accepted
\* text message
C12_WentOnAfterText ==
    /\ pc \in {"sendImages", "sendCharts", "done"}
    /\ at = "call"
    /\ ~threw
    /\ Len(sent) >= 2
    /\ sent[Len(sent)].api = "sendMessage"
    /\ sent[Len(sent)].kind = "fallback"
    /\ sent[Len(sent)].ok
    /\ sent[Len(sent) - 1].api = "sendDocument"
    /\ ~sent[Len(sent) - 1].ok
    /\ sent[Len(sent) - 1].fileName = sent[Len(sent)].fileName

\* the file names of the generated images, then of the generated charts
ArtifactNames ==
    [i \in 1..(Len(images) + Len(charts)) |->
        IF i <= Len(images) THEN images[i].fileName ELSE charts[i - Len(images)].fileName]

\* where in sent the requests about the file f are
RequestsFor(f) == {i \in 1..Len(sent) : sent[i].fileName = f}

\* the file itself went out: its upload as a document was answered ok
Uploaded(f) ==
    \E i \in RequestsFor(f) : sent[i].api = "sendDocument" /\ sent[i].ok

\* the last request about the file (the document, or a text message sent
\* in its place) was answered ok
Answered(f) ==
    \E i \in RequestsFor(f) : sent[i].ok /\ \A j \in RequestsFor(f) : j <= i

\* the startup notification, the main message, then requests about the
\* images and the charts in their order, and nothing else
OrderedLog ==
    /\ Len(sent) >= 2
    /\ sent[1].kind = "startup" /\ sent[1].ok
    /\ sent[2].kind = "main" /\ sent[2].ok
    /\ \A i \in 3..Len(sent) :
          /\ sent[i].kind \in {"document", "fallback"}
          /\ \E a \in 1..Len(ArtifactNames) : sent[i].fileName = ArtifactNames[a]
    /\ \A a \in 1..Len(ArtifactNames) : \A b \in 1..Len(ArtifactNames) :
          a < b => \A i \in RequestsFor(ArtifactNames[a]) :
                      \A j \in RequestsFor(ArtifactNames[b]) : i < j

\* where in sent the failure notifications are
Failures(log) == {i \in 1..Len(log) : log[i].kind = "failure"}

\* a failure notification is the last request, and was made after a throw;
\* until the process has exited, its refusal's text is being awaited
FailureLog ==
    \A i \in Failures(sent) :
        /\ i = Len(sent)
        /\ threw
        /\ pc = "exited" \/ (pc = "catch" /\ at = "refused" /\ ~sent[i].ok)

\* how a run may have ended, but for what a normal end says of the artifacts
EndedOneWay ==
    /\ exitCode \in {-1, 0, 1}
    /\ (exitCode # -1) = (pc = "exited")
    /\ threw = (pc = "catch" \/ exitCode = 1)
    /\ exitCode = 0 => OrderedLog
    /\ FailureLog

\* what follows a throw: one call of sendToTelegram with the failure text
\* and no other request (the call makes one request when TELEGRAM_CHAT_ID
\* is a string, empty or not; when it is undefined the call throws before
\* requesting), then exit code 1 whatever the answer.  Only while the text
\* of a refused notification is awaited does the program stay in the catch
\* block, and then it makes no request again.
FailureStep ==
    pc = "catch" =>
        /\ \A i \in 1..Len(NewRequests) : NewRequests[i].kind = "failure"
        /\ Cardinality(Failures(sent')) = (IF IsString(env.chatId) THEN 1 ELSE 0)
        /\ threw'
        /\ \/ pc' = "exited" /\ exitCode' = 1
           \/ pc' = "catch" /\ at = "call" /\ at' = "refused" /\ exitCode' = -1

\* how far the run has come: the statements of runAutomation in order, the
\* main message formatted or not, within a send loop the index, within a
\* call the awaited operations
Statements ==
    <<"start", "import", "startup", "fetch", "thread", "images", "charts", "main",
      "sendImages", "sendCharts", "done", "catch", "exited">>

Operations ==
    <<"call", "refused", "body", "try", "tryRefused", "catch", "catchRefused", "sleep">>

Place(seq, x) == CHOOSE i \in 1..Len(seq) : seq[i] = x

Progress ==
    Place(Statements, pc) * 1000 + Len(message) * 100 + idx * 10 + Place(Operations, at)

\* a next step exists: generateCryptoImages, generatePriceCharts and
\* formatMainMessage return or throw on what they are called with (a call
\* of the function, whose result follows the throw or the return); in
\* every other place some action is enabled
NextAvailable ==
    IF pc = "images"
    THEN \A d1 \in Ticks, d2 \in Ticks, mkdirFails \in BOOLEAN, failWrite \in 0..ImageCount :
            generateCryptoImages(cryptoData, <<now + d1, now + d1 + d2>>,
                                 mkdirFails, failWrite).threw \in BOOLEAN
    ELSE IF pc = "charts"
    THEN \A d \in Ticks, mkdirFails \in BOOLEAN, failWrite \in 0..1 :
            generatePriceCharts(cryptoData, now + d, mkdirFails, failWrite).threw \in BOOLEAN
    ELSE IF pc = "main" /\ message = <<>>
    THEN formatMainMessage(threadContent, cryptoData).threw \in BOOLEAN
    ELSE ENABLED Next

\* C13 as stated: a run ends normally only after every generated image and
\* every generated chart itself went out.
C13_SuccessAfterEveryUpload ==
    exitCode = 0 =>
        OrderedLog /\ \A a \in 1..Len(ArtifactNames) : Uploaded(ArtifactNames[a])

\* C13: a run of runAutomation ends in one of two ways.  It ends normally
\* (exit code 0) only without a throw and after the startup notification
\* and the main message were accepted and, for every generated image and
\* then every generated chart in their order, the upload or a text message
\* sent in its place was accepted.  Once a step has thrown, the only further
\* request is the one failure notification and the process exits with code
\* 1 whether or not that notification succeeds.  Until the process has
\* exited a next step exists, and every step advances the run, so that a
\* run whose awaited operations all settle ends.
C13_TwoEndings ==
    /\ []EndedOneWay
    /\ [](exitCode = 0 => \A a \in 1..Len(ArtifactNames) : Answered(ArtifactNames[a]))
    /\ [][FailureStep]_vars
    /\ [](pc = "exited" \/ NextAvailable)
    /\ [][Progress' > Progress]_vars

\* a run that threw after the main message went out, failed to deliver the
\* failure notification too, and exited with code 1
C13_FailedNotification ==
    /\ pc = "exited"
    /\ exitCode = 1
    /\ Len(sent) >= 3
    /\ sent[2].kind = "main"
    /\ sent[2].ok
    /\ sent[Len(sent)].kind = "failure"
    /\ ~sent[Len(sent)].ok

====
